---- MODULE Spec2Model ----
(***************************************************************************)
(* go-cuserr: the CustomError value, its metadata store, the stack         *)
(* capturer, the process-wide configuration and the errors.Is chain hooks. *)
(*                                                                         *)
(* One CustomError instance `e` is modelled together with the heap of Go   *)
(* maps (so that aliasing between e.metadata and a map handed to a caller  *)
(* is expressible), the heap of Config records (globalConfig is a pointer),*)
(* the two RWMutexes and the goroutines that call the methods.             *)
(*                                                                         *)
(* Specifications:                                                         *)
(*   SpecMeta      sequential metadata API plus a caller holding a map     *)
(*   SpecStack     constructors, SetConfig/GetConfig, GetStackTrace        *)
(*   SpecChain     error chains and errors.Is                              *)
(*   SpecMetaConc  goroutines in WithMetadata / GetAllMetadata             *)
(*   SpecFieldConc goroutines in WithRequestID / ShortError / SetConfig /  *)
(*                 GetConfig / ClientSafeMessage                           *)
(***************************************************************************)
EXTENDS Integers, Sequences, FiniteSets, TLC

VARIABLES
    e,              \* the CustomError instance (record of its fields)
    maps,           \* heap of Go maps: MapIds -> (string -> string)
    held,           \* map reference a caller got from GetAllMetadata (0 = none)
    refMap,         \* reference string-to-string map (specification ghost)
    retVal,         \* GetMetadata: returned value
    retFound,       \* GetMetadata: returned found flag
    cfgHeap,        \* heap of Config records: CfgIds -> Config
    globalConfig,   \* pointer to the live Config record
    callStack,      \* call stack the last constructor ran on
    callerCfg,      \* pointer to the Config record the caller last passed or got
    refConfig,      \* field values of the last non-nil SetConfig argument (ghost)
    retStack,       \* GetStackTrace: returned sequence
    callerSlice,    \* the []StackFrame a caller holds: its backing array and elements
    filterArgs,     \* the patterns the last FilterStackTrace call was given
    chain,          \* SpecChain: CustomErrors bottom-up, each [Sentinel, Wrapped]
    target,         \* SpecChain: the errors.Is target last asked about
    retIs,          \* SpecChain: result of the last errors.Is(top, target)
    mu,             \* e.mu, the per-instance sync.RWMutex
    globalConfigMu, \* the configuration sync.RWMutex
    ec,             \* the ErrorCollection: lengths of its slices, Context, Summary, mu
    pc,             \* per goroutine: position inside the method it is running
    loc,            \* per goroutine: locals of the method it is running
    hist,           \* per goroutine: store values seen while it copies (ghost)
    written,        \* per key: who wrote it and the value last returned from (ghost)
    ret,            \* what the last status or render method returned
    op              \* name of the operation the last step belongs to

vars == <<e, maps, held, refMap, retVal, retFound, cfgHeap, globalConfig, callerCfg, refConfig,
          callStack, retStack, callerSlice, filterArgs, chain, target, retIs,
          mu, globalConfigMu, ec, pc, loc, hist, written, ret, op>>

metaVars  == <<maps, held, refMap, retVal, retFound>>
cfgVars   == <<cfgHeap, globalConfig, callerCfg, refConfig>>
stackVars == <<callStack, retStack, callerSlice, filterArgs>>
chainVars == <<chain, target, retIs>>
concVars  == <<mu, globalConfigMu, ec, pc, loc, hist, written>>
renderVars == <<ret>>

----------------------------------------------------------------------------
(* Bounds *)

NumKeys       == 2
NumGoroutines == 2
MaxCallDepth  == 12
MaxChainDepth == 3

----------------------------------------------------------------------------
(* Program constants *)

DEFAULT_STACK_DEPTH == 10
STACK_SKIP_FRAMES   == 2

Nil == 0

----------------------------------------------------------------------------
(* Strings that are searched with strings.Contains are sequences of tokens *)

MAIN_FUNCTION_NAME    == <<"main", ".", "main">>
TESTING_FUNCTION_NAME == <<"testing", ".">>

\* strings.Contains(s, substr)
Contains(s, substr) ==
    \E i \in 0..(Len(s) - Len(substr)) :
        SubSeq(s, i + 1, i + Len(substr)) = substr

----------------------------------------------------------------------------
(* Categories, codes, sentinels *)

ErrorCategoryValidation   == "validation"
ErrorCategoryNotFound     == "not_found"
ErrorCategoryConflict     == "conflict"
ErrorCategoryUnauthorized == "unauthorized"
ErrorCategoryForbidden    == "forbidden"
ErrorCategoryInternal     == "internal"
ErrorCategoryTimeout      == "timeout"
ErrorCategoryRateLimit    == "rate_limit"
ErrorCategoryExternal     == "external"

\* error values are identified by integers: 0 is the nil error, 1..9 the
\* package sentinels, 10.. plain errors made by errors.New elsewhere,
\* 100 + i the CustomError at level i of `chain`
ErrNotFound      == 1
ErrAlreadyExists == 2
ErrInvalidInput  == 3
ErrUnauthorized  == 4
ErrForbidden     == 5
ErrInternal      == 6
ErrTimeout       == 7
ErrRateLimit     == 8
ErrExternal      == 9

Sentinels   == ErrNotFound..ErrExternal
PlainErrors == {10, 11}
CustomBase  == 100

IsCustom(err) == err > CustomBase
LevelOf(err)  == err - CustomBase

----------------------------------------------------------------------------
(* Go maps, on a heap *)

AllKeys == <<"user_id", "password", "trace_id", "api_key", "request_id", "correlation_id">>
Keys    == {AllKeys[i] : i \in 1..NumKeys}
Vals    == {"", "v1"}

\* the two keys the goroutines write
ConcKeys == {AllKeys[1], AllKeys[2]}

EmptyMap == [k \in {} |-> ""]

\* live references are e.metadata and the map a caller holds; one spare cell
MapIds == 1..3

\* make(map[string]string): the lowest cell nothing refers to
NewMapId(live) == CHOOSE i \in MapIds : i \notin live /\ \A j \in MapIds : j < i => j \in live

\* cells nothing refers to are reclaimed
Collect(h, live) == [i \in MapIds |-> IF i \in live THEN h[i] ELSE EmptyMap]

\* m[key] = value, with the broken variant that forgets the other entries
MapStoreForgetful(m, key, value) == [k \in {key} |-> value]

MapStore(m, key, value) ==
    [k \in DOMAIN m \cup {key} |-> IF k = key THEN value ELSE m[k]]

\* delete(m, key)
MapDelete(m, key) == [k \in DOMAIN m \ {key} |-> m[k]]

\* no status or render method has returned since the caller last did
\* something else
NoRet == [status |-> 0, message |-> "", code |-> "", category |-> "", timestamp |-> <<>>,
          hasMetadata |-> FALSE, metadata |-> EmptyMap,
          hasRequestID |-> FALSE, requestID |-> ""]

\* the caller holds no slice of frames
NoSlice == [array |-> "none", elems |-> <<>>, origin |-> "none"]

\* the contents of e's metadata store: a nil map reads as an empty one
StoreValue == IF e.metadata = Nil THEN EmptyMap ELSE maps[e.metadata]

----------------------------------------------------------------------------
(* Error chains: errors.Is, CustomError.Unwrap, CustomError.Is *)

RECURSIVE ErrorsIs(_, _), ErrorsIsLoop(_, _), CustomErrorIs(_, _)

\* CustomError.Unwrap; the plain errors have no Unwrap method
Unwrap(err) == IF IsCustom(err) THEN chain[LevelOf(err)].Wrapped ELSE Nil

\* the broken variant of CustomError.Is that forgets the sentinel
CustomErrorIsWrappedOnly(err, tgt) ==
    ErrorsIs(chain[LevelOf(err)].Wrapped, tgt)

\* CustomError.Is
CustomErrorIs(err, tgt) ==
    \/ ErrorsIs(chain[LevelOf(err)].Sentinel, tgt)
    \/ ErrorsIs(chain[LevelOf(err)].Wrapped, tgt)

\* the loop of errors.Is: identity, then the Is method, then Unwrap
ErrorsIsLoop(err, tgt) ==
    IF err = tgt THEN TRUE
    ELSE IF IsCustom(err) /\ CustomErrorIs(err, tgt) THEN TRUE
    ELSE IF IsCustom(err)
         THEN IF Unwrap(err) = Nil THEN FALSE ELSE ErrorsIsLoop(Unwrap(err), tgt)
         ELSE FALSE

\* errors.Is
ErrorsIs(err, tgt) ==
    IF err = Nil \/ tgt = Nil THEN err = tgt ELSE ErrorsIsLoop(err, tgt)

\* the broken variant of mapSentinelToCategory that compares with == where
\* the code asks errors.Is
mapSentinelToCategoryByIdentity(sentinel) ==
    IF sentinel = ErrNotFound THEN ErrorCategoryNotFound
    ELSE IF sentinel = ErrAlreadyExists THEN ErrorCategoryConflict
    ELSE IF sentinel = ErrInvalidInput THEN ErrorCategoryValidation
    ELSE IF sentinel = ErrUnauthorized THEN ErrorCategoryUnauthorized
    ELSE IF sentinel = ErrForbidden THEN ErrorCategoryForbidden
    ELSE IF sentinel = ErrTimeout THEN ErrorCategoryTimeout
    ELSE IF sentinel = ErrRateLimit THEN ErrorCategoryRateLimit
    ELSE IF sentinel = ErrExternal THEN ErrorCategoryExternal
    ELSE ErrorCategoryInternal

\* mapSentinelToCategory
mapSentinelToCategory(sentinel) ==
    IF ErrorsIs(sentinel, ErrNotFound) THEN ErrorCategoryNotFound
    ELSE IF ErrorsIs(sentinel, ErrAlreadyExists) THEN ErrorCategoryConflict
    ELSE IF ErrorsIs(sentinel, ErrInvalidInput) THEN ErrorCategoryValidation
    ELSE IF ErrorsIs(sentinel, ErrUnauthorized) THEN ErrorCategoryUnauthorized
    ELSE IF ErrorsIs(sentinel, ErrForbidden) THEN ErrorCategoryForbidden
    ELSE IF ErrorsIs(sentinel, ErrTimeout) THEN ErrorCategoryTimeout
    ELSE IF ErrorsIs(sentinel, ErrRateLimit) THEN ErrorCategoryRateLimit
    ELSE IF ErrorsIs(sentinel, ErrExternal) THEN ErrorCategoryExternal
    ELSE ErrorCategoryInternal

\* generateErrorCode
generateErrorCode(sentinel) ==
    IF ErrorsIs(sentinel, ErrNotFound) THEN "NOT_FOUND"
    ELSE IF ErrorsIs(sentinel, ErrAlreadyExists) THEN "ALREADY_EXISTS"
    ELSE IF ErrorsIs(sentinel, ErrInvalidInput) THEN "INVALID_INPUT"
    ELSE IF ErrorsIs(sentinel, ErrUnauthorized) THEN "UNAUTHORIZED"
    ELSE IF ErrorsIs(sentinel, ErrForbidden) THEN "FORBIDDEN"
    ELSE IF ErrorsIs(sentinel, ErrTimeout) THEN "TIMEOUT"
    ELSE IF ErrorsIs(sentinel, ErrRateLimit) THEN "RATE_LIMIT"
    ELSE IF ErrorsIs(sentinel, ErrExternal) THEN "EXTERNAL_ERROR"
    ELSE "INTERNAL_ERROR"

\* the error on top of the chain
Top == IF chain = <<>> THEN Nil ELSE CustomBase + Len(chain)

\* what the bottom CustomError of a chain may wrap: nothing, a plain error,
\* or a sentinel used as a plain error
Roots == {Nil} \cup PlainErrors \cup {ErrTimeout}

\* NewCustomError(sentinel, wrapped, message) where wrapped is the current
\* top of the chain (or a root, for the first level)
NewCustomErrorOnto(sentinel, wrapped) ==
    /\ Len(chain) < MaxChainDepth
    /\ wrapped = Top \/ (chain = <<>> /\ wrapped \in Roots)
    /\ chain' = Append(chain, [Sentinel |-> sentinel, Wrapped |-> wrapped])
    /\ op' = "NewCustomErrorOnto"
    /\ UNCHANGED <<target, retIs>>
    /\ UNCHANGED <<e, metaVars, cfgVars, stackVars, concVars>>
    /\ ret' = NoRet

\* errors.Is(top, x)
ErrorsIsCall(x) ==
    /\ chain # <<>>
    /\ target' = x
    /\ retIs' = ErrorsIs(Top, x)
    /\ op' = "ErrorsIs"
    /\ UNCHANGED chain
    /\ UNCHANGED <<e, metaVars, cfgVars, stackVars, concVars>>
    /\ ret' = NoRet

\* the errors a caller can ask about
Targets == Sentinels \cup PlainErrors \cup {CustomBase + i : i \in 1..MaxChainDepth}

----------------------------------------------------------------------------
(* Process-wide configuration, on a heap: globalConfig is a pointer *)

DefaultConfig ==
    [EnableStackTrace |-> TRUE, MaxStackDepth |-> DEFAULT_STACK_DEPTH, ProductionMode |-> FALSE]

\* depths a caller configures: negative, zero, small, the default, above it
Depths == {-1, 0, 1, 2, DEFAULT_STACK_DEPTH, DEFAULT_STACK_DEPTH + 1}

ConfigInputs ==
    [EnableStackTrace : BOOLEAN, MaxStackDepth : Depths, ProductionMode : BOOLEAN]

\* the live record, one record per goroutine inside a call, one for the caller
CfgIds == 1..(NumGoroutines + 2)

\* &Config{...}: the lowest cell nothing refers to
NewCfgId(live) == CHOOSE i \in CfgIds : i \notin live /\ \A j \in CfgIds : j < i => j \in live

CollectCfg(h, live) == [i \in CfgIds |-> IF i \in live THEN h[i] ELSE DefaultConfig]

\* a copy that leaves MaxStackDepth at its default
GetConfigValueDefaultDepth ==
    [EnableStackTrace |-> cfgHeap[globalConfig].EnableStackTrace,
     MaxStackDepth    |-> DEFAULT_STACK_DEPTH,
     ProductionMode   |-> cfgHeap[globalConfig].ProductionMode]

\* the value GetConfig copies out of the live record
GetConfigValue ==
    [EnableStackTrace |-> cfgHeap[globalConfig].EnableStackTrace,
     MaxStackDepth    |-> cfgHeap[globalConfig].MaxStackDepth,
     ProductionMode   |-> cfgHeap[globalConfig].ProductionMode]

\* SetConfig(&Config{...}): the caller builds a record and installs it; the
\* record it replaces is reclaimed and its cell reused
SetConfig(c) ==
    LET ref == NewCfgId({})
    IN  /\ cfgHeap' = CollectCfg([cfgHeap EXCEPT ![ref] = c], {ref})
        /\ globalConfig' = ref
        /\ callerCfg' = ref
        /\ refConfig' = c
        /\ retStack' = <<>>
        /\ op' = "SetConfig"
        /\ UNCHANGED <<e, metaVars, callStack, callerSlice, filterArgs, chainVars, concVars>>
        /\ ret' = NoRet

\* SetConfig(nil)
SetConfigNil ==
    /\ retStack' = <<>>
    /\ op' = "SetConfigNil"
    /\ UNCHANGED <<e, metaVars, cfgVars, callStack, callerSlice, filterArgs, chainVars, concVars>>
    /\ ret' = NoRet

----------------------------------------------------------------------------
(* Stack Capturer *)

\* a frame of the running call stack; hasFunc is FALSE where
\* runtime.FuncForPC finds no function
MkFrame(fn, line, has) == [Function |-> fn, File |-> "f.go", Line |-> line, hasFunc |-> has]

\* the StackFrame value stored for a frame
StackFrame(fr) == [Function |-> fr.Function, File |-> fr.File, Line |-> fr.Line]

PlainFunction(i) ==
    IF i % 2 = 1 THEN <<"svc", ".", "Handle">> ELSE <<"repo", ".", "Query">>

FrameKinds == {"main", "testing", "nofunc"}

SpecialFrame(kind, i) ==
    IF kind = "main" THEN MkFrame(<<"main", ".", "main">>, i, TRUE)
    ELSE IF kind = "testing" THEN MkFrame(<<"testing", ".", "tRunner">>, i, TRUE)
    ELSE MkFrame(<<>>, i, FALSE)

\* The running call stack is described by the number n of frames above the
\* constructor and the position sp (0 = none) and kind of its one special
\* frame; frames 0 and 1 are captureStackTrace and the constructor
MkStack(n, sp, kind) == [n |-> n, sp |-> sp, kind |-> kind]

StackLen(stack) == stack.n + 2

\* the frame runtime.Caller(i) reports, 0 <= i < StackLen(stack)
FrameAt(stack, i) ==
    IF i = 0 THEN MkFrame(<<"cuserr", ".", "captureStackTrace">>, 10, TRUE)
    ELSE IF i = 1 THEN MkFrame(<<"cuserr", ".", "NewCustomError">>, 2290, TRUE)
    ELSE IF i - 1 = stack.sp THEN SpecialFrame(stack.kind, i - 1)
    ELSE MkFrame(PlainFunction(i - 1), i - 1, TRUE)

\* depths and special-frame positions tried: shallow ones, and from the
\* default depth up to the deepest stack
StackDepths == (0..3) \cup (DEFAULT_STACK_DEPTH..MaxCallDepth)

\* call stacks a constructor is called on: ordinary frames only, and the
\* deepest stack with one special frame
Stacks ==
    {MkStack(n, 0, "main") : n \in StackDepths}
    \cup {MkStack(MaxCallDepth, sp, kind) : sp \in StackDepths \ {0}, kind \in FrameKinds}

\* the stack the initial error was constructed on: a test calling a helper
InitStack == MkStack(3, 3, "testing")

\* lines 17-20: the depth the walk is limited to; the broken variant forgets
\* the default
EffectiveMaxDepthNoDefault(config) == config.MaxStackDepth

EffectiveMaxDepth(config) ==
    IF config.MaxStackDepth <= 0 THEN DEFAULT_STACK_DEPTH ELSE config.MaxStackDepth

\* line 22: the loop's upper limit; the broken variant walks one frame more
CaptureLimitInclusive(skip, maxDepth) == skip + maxDepth + 1

CaptureLimit(skip, maxDepth) == skip + maxDepth

\* lines 22-46: the walk, frame i = runtime.Caller(i)
RECURSIVE CaptureLoop(_, _, _, _)
CaptureLoop(stack, i, limit, frames) ==
    IF ~(i < limit) THEN frames
    ELSE IF ~(i < StackLen(stack)) THEN frames
    ELSE LET fr == FrameAt(stack, i)
         IN  IF ~fr.hasFunc THEN frames
             ELSE IF \/ Contains(fr.Function, MAIN_FUNCTION_NAME)
                     \/ Contains(fr.Function, TESTING_FUNCTION_NAME)
                  THEN Append(frames, StackFrame(fr))
                  ELSE CaptureLoop(stack, i + 1, limit, Append(frames, StackFrame(fr)))

\* a walk that does not look at EnableStackTrace itself and relies on the
\* constructor's test
captureStackTraceUnchecked(stack, skip) ==
    CaptureLoop(stack, skip, CaptureLimit(skip, EffectiveMaxDepth(GetConfigValue)), <<>>)

\* a walk that starts one frame too low, at the constructor itself
captureStackTraceFromConstructor(stack, skip) ==
    IF ~GetConfigValue.EnableStackTrace THEN <<>>
    ELSE CaptureLoop(stack, skip - 1,
                     CaptureLimit(skip - 1, EffectiveMaxDepth(GetConfigValue)), <<>>)

\* captureStackTrace(skip), running on `stack`
captureStackTrace(stack, skip) ==
    IF ~GetConfigValue.EnableStackTrace THEN <<>>
    ELSE CaptureLoop(stack, skip, CaptureLimit(skip, EffectiveMaxDepth(GetConfigValue)), <<>>)

\* the stackTrace field both constructors set
ConstructorStack(stack) ==
    IF GetConfigValue.EnableStackTrace THEN captureStackTrace(stack, STACK_SKIP_FRAMES) ELSE <<>>

\* the error the caller works with before any constructor action
InitError ==
    [Category |-> ErrorCategoryInternal, Code |-> "INTERNAL_ERROR", Message |-> "m1",
     metadata |-> Nil, RequestID |-> "", stackTrace |-> <<>>,
     Wrapped |-> Nil, Sentinel |-> ErrInternal, Timestamp |-> 1,
     stackTraceCleared |-> FALSE]

\* lines 2273-2274: the category and code a NewCustomError call computes
\* from its arguments; the broken variant lets a wrapped CustomError decide
NewCustomErrorCategoryInherited(sentinel, wrapped) ==
    IF IsCustom(wrapped) THEN mapSentinelToCategory(wrapped)
    ELSE mapSentinelToCategory(sentinel)

NewCustomErrorCategory(sentinel, wrapped) == mapSentinelToCategory(sentinel)

NewCustomErrorCode(sentinel, wrapped) == generateErrorCode(sentinel)

\* NewCustomError(sentinel, wrapped, message), called on `stack` at time `now`
NewCustomError(sentinel, wrapped, message, stack, now) ==
    /\ e' = [Category |-> NewCustomErrorCategory(sentinel, wrapped),
             Code |-> NewCustomErrorCode(sentinel, wrapped),
             Message |-> message,
             metadata |-> Nil, RequestID |-> "",
             stackTrace |-> ConstructorStack(stack),
             Wrapped |-> wrapped, Sentinel |-> sentinel, Timestamp |-> now,
             stackTraceCleared |-> FALSE]
    /\ maps' = Collect(maps, {held})
    /\ refMap' = EmptyMap
    /\ callStack' = stack
    /\ retStack' = <<>>
    /\ UNCHANGED <<callerSlice, filterArgs>>
    /\ op' = "NewCustomError"
    /\ UNCHANGED <<held, retVal, retFound>>
    /\ UNCHANGED <<cfgVars, chainVars, concVars>>
    /\ ret' = NoRet

\* NewCustomErrorWithCategory(category, code, message), called on `stack` at
\* time `now`
NewCustomErrorWithCategory(category, code, message, stack, now) ==
    /\ e' = [Category |-> category, Code |-> code, Message |-> message,
             metadata |-> Nil, RequestID |-> "",
             stackTrace |-> ConstructorStack(stack),
             Wrapped |-> Nil, Sentinel |-> Nil, Timestamp |-> now,
             stackTraceCleared |-> FALSE]
    /\ maps' = Collect(maps, {held})
    /\ refMap' = EmptyMap
    /\ callStack' = stack
    /\ retStack' = <<>>
    /\ UNCHANGED <<callerSlice, filterArgs>>
    /\ op' = "NewCustomErrorWithCategory"
    /\ UNCHANGED <<held, retVal, retFound>>
    /\ UNCHANGED <<cfgVars, chainVars, concVars>>
    /\ ret' = NoRet

\* the broken variant of GetStackTrace that consults the live configuration
GetStackTraceLive ==
    IF ~GetConfigValue.EnableStackTrace THEN <<>>
    ELSE IF Len(e.stackTrace) > EffectiveMaxDepth(GetConfigValue)
         THEN SubSeq(e.stackTrace, 1, EffectiveMaxDepth(GetConfigValue))
         ELSE e.stackTrace

\* what GetStackTrace returns in the current state: a copy of e.stackTrace
GetStackTraceOf == [i \in 1..Len(e.stackTrace) |-> e.stackTrace[i]]

GetStackTrace ==
    /\ retStack' = GetStackTraceOf
    /\ op' = "GetStackTrace"
    /\ UNCHANGED <<e, callStack, callerSlice, filterArgs>>
    /\ UNCHANGED <<metaVars, cfgVars, chainVars, concVars>>
    /\ ret' = NoRet

----------------------------------------------------------------------------
(* Sequential metadata API *)

\* WithMetadata: lazy make, then store
WithMetadata(key, value) ==
    LET ref  == IF e.metadata = Nil THEN NewMapId({held}) ELSE e.metadata
        base == IF e.metadata = Nil THEN EmptyMap ELSE maps[e.metadata]
    IN  /\ e' = [e EXCEPT !.metadata = ref]
        /\ maps' = [maps EXCEPT ![ref] = MapStore(base, key, value)]
        /\ refMap' = [k \in DOMAIN refMap \cup {key} |-> IF k = key THEN value ELSE refMap[k]]
        /\ op' = "WithMetadata"
        /\ UNCHANGED <<held, retVal, retFound>>
        /\ UNCHANGED <<cfgVars, stackVars, chainVars, concVars>>
        /\ ret' = NoRet

\* what GetMetadata(key) returns in the current state
GetMetadataOf(key) ==
    IF e.metadata = Nil THEN <<"", FALSE>>
    ELSE IF key \in DOMAIN maps[e.metadata] THEN <<maps[e.metadata][key], TRUE>>
    ELSE <<"", FALSE>>

GetMetadata(key) ==
    /\ retVal' = GetMetadataOf(key)[1]
    /\ retFound' = GetMetadataOf(key)[2]
    /\ op' = "GetMetadata"
    /\ UNCHANGED <<e, maps, held, refMap>>
    /\ UNCHANGED <<cfgVars, stackVars, chainVars, concVars>>
    /\ ret' = NoRet

\* the map GetAllMetadata hands out: the broken variant hands out e.metadata
GetAllMetadataAliased == IF e.metadata = Nil THEN NewMapId({e.metadata}) ELSE e.metadata

GetAllMetadataRef == NewMapId({e.metadata})

\* GetAllMetadata: a new map, filled entry by entry from e.metadata; the
\* caller's previous map is dropped
GetAllMetadata ==
    LET ref == GetAllMetadataRef
    IN  /\ held' = ref
        /\ maps' = Collect([maps EXCEPT ![ref] = StoreValue], {e.metadata, ref})
        /\ op' = "GetAllMetadata"
        /\ UNCHANGED <<e, refMap, retVal, retFound>>
        /\ UNCHANGED <<cfgVars, stackVars, chainVars, concVars>>
        /\ ret' = NoRet

\* the caller inserts or overwrites an entry of the map it was handed
CallerPut(key, value) ==
    /\ held # Nil
    /\ maps' = [maps EXCEPT ![held] = MapStore(maps[held], key, value)]
    /\ op' = "CallerPut"
    /\ UNCHANGED <<e, held, refMap, retVal, retFound>>
    /\ UNCHANGED <<cfgVars, stackVars, chainVars, concVars>>
    /\ ret' = NoRet

\* the caller deletes an entry of the map it was handed
CallerDelete(key) ==
    /\ held # Nil
    /\ key \in DOMAIN maps[held]
    /\ maps' = [maps EXCEPT ![held] = MapDelete(maps[held], key)]
    /\ op' = "CallerDelete"
    /\ UNCHANGED <<e, held, refMap, retVal, retFound>>
    /\ UNCHANGED <<cfgVars, stackVars, chainVars, concVars>>
    /\ ret' = NoRet

----------------------------------------------------------------------------
(* sync.RWMutex: a writer takes the inner mutex and announces itself, then  *)
(* waits until the active readers are gone; RLock called while a writer is  *)
(* announced blocks until that writer's Unlock, which admits every blocked  *)
(* reader before the next writer                                            *)

RWMutexFree == [writer |-> 0, locked |-> FALSE, readers |-> {}, blocked |-> {}]

\* Lock(), first half: the inner mutex is free
LockCanAnnounce(m) == m.writer = 0
LockAnnounce(m, g) == [m EXCEPT !.writer = g]

\* Lock(), second half: the readers are gone, Lock returns
LockCanReturn(m, g) == m.writer = g /\ ~m.locked /\ m.readers = {}
LockReturn(m, g)    == [m EXCEPT !.locked = TRUE]

\* Unlock(): a goroutine that holds nothing leaves the mutex as it is
Unlock(m, g) ==
    IF m.writer = g
    THEN [writer |-> 0, locked |-> FALSE, readers |-> m.readers \cup m.blocked, blocked |-> {}]
    ELSE m

\* a read hold is <<goroutine, n>>: the goroutine's n-th RLock not yet undone
\* by RUnlock (the mutex counts its readers, so a goroutine that calls RLock
\* twice is two readers)
HoldsOf(holds, g) == {h \in holds : h[1] = g}

\* RLock(): enter, or block behind the announced writer
RLock(m, g) ==
    LET hold == <<g, Cardinality(HoldsOf(m.readers \cup m.blocked, g)) + 1>>
    IN  IF m.writer = 0 THEN [m EXCEPT !.readers = @ \cup {hold}]
        ELSE [m EXCEPT !.blocked = @ \cup {hold}]

\* RLock() returns once the goroutine has been admitted among the readers
RLockReturned(m, g) == HoldsOf(m.readers, g) # {} /\ HoldsOf(m.blocked, g) = {}

\* RUnlock(): one reader fewer
RUnlock(m, g) ==
    [m EXCEPT !.readers = {h \in @ : h # <<g, Cardinality(HoldsOf(@, g))>>}]

HoldsWrite(m, g) == m.writer = g /\ m.locked
HoldsRead(m, g)  == HoldsOf(m.readers, g) # {}

----------------------------------------------------------------------------
(* Initial state: default configuration, one error freshly constructed by   *)
(* a test helper, nothing locked, every goroutine outside any call          *)

Goroutines == 1..NumGoroutines

NoLocals == [key |-> "", value |-> "", copy |-> EmptyMap, seen |-> {}, cfg |-> Nil, str |-> "",
             ip |-> 0, config |-> DefaultConfig, frames |-> <<>>, count |-> 0]

\* NewErrorCollection(summary): no errors, no validation errors, an empty
\* Context, a free mutex
NewErrorCollection(summary) ==
    [Errors |-> <<>>, ValidationErrors |-> <<>>, Summary |-> summary, Context |-> EmptyMap,
     mu |-> RWMutexFree]

\* nobody has called WithMetadata on the key
NotWritten == [by |-> 0, val |-> ""]

Init ==
    /\ cfgHeap = [i \in CfgIds |-> DefaultConfig]
    /\ globalConfig = 1
    /\ callerCfg = Nil
    /\ refConfig = DefaultConfig
    /\ callStack = InitStack
    /\ e = [InitError EXCEPT !.stackTrace =
               CaptureLoop(InitStack, STACK_SKIP_FRAMES,
                           STACK_SKIP_FRAMES + DEFAULT_STACK_DEPTH, <<>>)]
    /\ maps = [i \in MapIds |-> EmptyMap]
    /\ held = Nil
    /\ refMap = EmptyMap
    /\ retVal = ""
    /\ retFound = FALSE
    /\ retStack = <<>>
    /\ callerSlice = NoSlice
    /\ filterArgs = <<>>
    /\ chain = <<>>
    /\ target = Nil
    /\ retIs = FALSE
    /\ mu = RWMutexFree
    /\ globalConfigMu = RWMutexFree
    /\ ec = NewErrorCollection("validation failed")
    /\ pc = [g \in Goroutines |-> "idle"]
    /\ loc = [g \in Goroutines |-> NoLocals]
    /\ hist = [g \in Goroutines |-> {}]
    /\ written = [k \in ConcKeys |-> NotWritten]
    /\ ret = NoRet
    /\ op = "init"

----------------------------------------------------------------------------
(* Sequential specifications *)

NextMeta ==
    \/ \E key \in Keys, value \in Vals : WithMetadata(key, value)
    \/ \E key \in Keys : GetMetadata(key)
    \/ GetAllMetadata
    \/ \E key \in Keys, value \in Vals : CallerPut(key, value)
    \/ \E key \in Keys : CallerDelete(key)

SpecMeta == Init /\ [][NextMeta]_vars

NextStack ==
    \/ \E c \in {c \in ConfigInputs : ~c.ProductionMode} : SetConfig(c)
    \/ SetConfigNil
    \/ \E stack \in Stacks : NewCustomError(ErrNotFound, Nil, "m1", stack, 1)
    \/ \E stack \in Stacks :
           NewCustomErrorWithCategory(ErrorCategoryTimeout, "CUSTOM", "m1", stack, 1)
    \/ GetStackTrace

SpecStack == Init /\ [][NextStack]_vars

NextChain ==
    \/ \E sentinel \in {Nil, ErrNotFound, ErrInternal, ErrTimeout}, wrapped \in Roots \cup {Top} :
           NewCustomErrorOnto(sentinel, wrapped)
    \/ \E x \in Targets : (IsCustom(x) => LevelOf(x) <= Len(chain)) /\ ErrorsIsCall(x)

SpecChain == Init /\ [][NextChain]_vars

----------------------------------------------------------------------------
(* Properties of the sequential specifications *)

Constructors == {"NewCustomError", "NewCustomErrorWithCategory"}

\* C5: inserting, overwriting or deleting entries in a map that
\* GetAllMetadata returned never changes what GetMetadata(k) or
\* GetAllMetadata return afterwards
CopyOnRead ==
    [][op' \in {"CallerPut", "CallerDelete"} =>
          /\ StoreValue' = StoreValue
          /\ \A key \in Keys : GetMetadataOf(key)' = GetMetadataOf(key)]_vars

\* the caller has changed its map and it now differs from the store
CopyOnReadWitness ==
    /\ op \in {"CallerPut", "CallerDelete"}
    /\ held # Nil
    /\ e.metadata # Nil
    /\ maps[held] # StoreValue

\* C6: the store is a string-to-string map that starts empty: GetMetadata
\* returns the latest value written to the key with found = TRUE, or
\* ("", FALSE) for a key never written; GetAllMetadata returns a non-nil map
\* with exactly the latest value of every written key
MetadataRefinesMap ==
    /\ \A key \in Keys :
          GetMetadataOf(key) =
              IF key \in DOMAIN refMap THEN <<refMap[key], TRUE>> ELSE <<"", FALSE>>
    /\ op = "GetAllMetadata" => held # Nil /\ maps[held] = refMap
    /\ op = "GetMetadata" =>
          \E key \in Keys :
              <<retVal, retFound>> =
                  IF key \in DOMAIN refMap THEN <<refMap[key], TRUE>> ELSE <<"", FALSE>>

\* every key has been written and the full map has been handed out
MetadataRefinesMapWitness ==
    /\ op = "GetAllMetadata"
    /\ held # Nil
    /\ DOMAIN maps[held] = Keys
    /\ \E key \in Keys : maps[held][key] = "v1"

\* C7: no SetConfig call changes what GetStackTrace returns on an error
\* that has already been constructed
StackFixedAtConstruction ==
    [][op' \in {"SetConfig", "SetConfigNil"} => GetStackTraceOf' = GetStackTraceOf]_vars

\* capture has been switched off after the error captured frames
StackFixedWitness ==
    /\ op = "SetConfig"
    /\ ~GetConfigValue.EnableStackTrace
    /\ Len(GetStackTraceOf) > 1

\* C8 as stated: never more than the configured N frames, for every N, and
\* zero frames with capture disabled
StackDepthBoundEveryN ==
    op \in Constructors =>
        IF GetConfigValue.EnableStackTrace
        THEN Len(GetStackTraceOf) <= GetConfigValue.MaxStackDepth
        ELSE Len(GetStackTraceOf) = 0

\* C8 amended: never more than N frames for N > 0, never more than
\* DEFAULT_STACK_DEPTH frames for N <= 0, zero frames with capture disabled
StackDepthBound ==
    op \in Constructors =>
        IF ~GetConfigValue.EnableStackTrace THEN Len(GetStackTraceOf) = 0
        ELSE IF GetConfigValue.MaxStackDepth > 0
             THEN Len(GetStackTraceOf) <= GetConfigValue.MaxStackDepth
             ELSE Len(GetStackTraceOf) <= DEFAULT_STACK_DEPTH

\* a call stack deeper than the configured depth was cut at that depth
StackDepthBoundWitness ==
    /\ op \in Constructors
    /\ GetConfigValue.EnableStackTrace
    /\ GetConfigValue.MaxStackDepth = 2
    /\ StackLen(callStack) - STACK_SKIP_FRAMES > 2
    /\ Len(GetStackTraceOf) = 2

\* the first n frames above the constructor are ordinary resolvable frames
DeepPlainStack(n) ==
    /\ StackLen(callStack) - STACK_SKIP_FRAMES >= n
    /\ \A i \in STACK_SKIP_FRAMES..(STACK_SKIP_FRAMES + n - 1) :
          /\ FrameAt(callStack, i).hasFunc
          /\ ~Contains(FrameAt(callStack, i).Function, MAIN_FUNCTION_NAME)
          /\ ~Contains(FrameAt(callStack, i).Function, TESTING_FUNCTION_NAME)

\* C9 as stated: the effective maximum is min(configured, 10), 10 standing
\* in for a configured depth <= 0
EffectiveDepthCappedAtDefault ==
    op \in Constructors /\ GetConfigValue.EnableStackTrace =>
        LET n == GetConfigValue.MaxStackDepth
            m == IF n <= 0 THEN DEFAULT_STACK_DEPTH ELSE n
        IN  Len(GetStackTraceOf) <= (IF m < DEFAULT_STACK_DEPTH THEN m ELSE DEFAULT_STACK_DEPTH)

\* C9 amended: the effective maximum is the configured depth itself, 10
\* standing in for a configured depth <= 0: a capture never has more frames,
\* and has exactly that many on a deep enough stack of ordinary frames
EffectiveDepth ==
    op \in Constructors /\ GetConfigValue.EnableStackTrace =>
        LET n == GetConfigValue.MaxStackDepth
            m == IF n <= 0 THEN DEFAULT_STACK_DEPTH ELSE n
        IN  /\ Len(GetStackTraceOf) <= m
            /\ DeepPlainStack(m) => Len(GetStackTraceOf) = m

\* a configured depth <= 0 captured the default number of frames
EffectiveDepthWitness ==
    /\ op \in Constructors
    /\ GetConfigValue.EnableStackTrace
    /\ GetConfigValue.MaxStackDepth <= 0
    /\ Len(GetStackTraceOf) = DEFAULT_STACK_DEPTH

\* sentinels of the CustomErrors of the chain
ChainSentinels == {chain[i].Sentinel : i \in 1..Len(chain)} \ {Nil}

\* the errors of the chain: its CustomErrors and what the bottom one wraps
ChainElements ==
    {CustomBase + i : i \in 1..Len(chain)}
    \cup (IF chain = <<>> THEN {} ELSE {chain[1].Wrapped} \ {Nil})

\* C10: errors.Is(top, x) is true for the sentinel of every CustomError of
\* the chain and for every error of the chain, the plain root included, and
\* false for a sentinel that is neither
ChainMatching ==
    op = "ErrorsIs" =>
        /\ target \in ChainSentinels \cup ChainElements => retIs
        /\ target \in Sentinels \ (ChainSentinels \cup ChainElements) => ~retIs

\* a sentinel carried only by the bottom CustomError of a 3-level chain
\* was found from the top
ChainMatchingWitness ==
    /\ op = "ErrorsIs"
    /\ Len(chain) >= 3
    /\ target # Nil
    /\ target = chain[1].Sentinel
    /\ \A i \in 2..Len(chain) : chain[i].Sentinel # target
    /\ chain[1].Wrapped \in PlainErrors
    /\ retIs

----------------------------------------------------------------------------
(* Methods as statement sequences; pc[g] is the statement goroutine g is    *)
(* about to execute, "idle" outside any call                                *)

\* WithMetadata without its Lock / deferred Unlock
WithMetadataCodeNoLock == <<"wm_nil", "wm_make", "wm_store">>

\* WithMetadata: Lock; if metadata == nil { make }; metadata[key] = value;
\* return e; deferred Unlock
WithMetadataCode == <<"wm_lock", "wm_wait", "wm_nil", "wm_make", "wm_store", "wm_unlock">>

\* GetAllMetadata without its RLock / deferred RUnlock
GetAllMetadataCodeNoLock == <<"ga_nil", "ga_copy", "ga_ret">>

\* GetAllMetadata: RLock; if metadata == nil { return make }; copy loop;
\* return copy; deferred RUnlock
GetAllMetadataCode == <<"ga_rlock", "ga_rwait", "ga_nil", "ga_copy", "ga_ret", "ga_runlock">>

\* the statement after `label` in `code`, "idle" after the last one
After(code, label) ==
    LET i == CHOOSE j \in 1..Len(code) : code[j] = label
    IN  IF i = Len(code) THEN "idle" ELSE code[i + 1]

\* ghost: goroutine g calls WithMetadata on key
WrittenAtCall(g, key) ==
    [written EXCEPT ![key] = IF @.by = 0 \/ @.by = g THEN [by |-> g, val |-> @.val]
                                ELSE [by |-> -1, val |-> ""]]

\* ghost: goroutine g's WithMetadata(key, value) has returned
WrittenAtReturn(g, key, value) ==
    [written EXCEPT ![key] = IF @.by = g THEN [by |-> g, val |-> value] ELSE @]

\* ghost: the store values a copying reader has had in front of it
CopyWindow == {"ga_copy", "ga_ret", "ga_runlock"}
HistAfterStore(newValue) ==
    [g \in Goroutines |-> IF pc[g] \in CopyWindow THEN hist[g] \cup {newValue} ELSE hist[g]]

metaConcFrame == <<held, refMap, retVal, retFound, cfgVars, stackVars, chainVars, globalConfigMu, ec,
                   renderVars>>

\* a goroutine calls e.WithMetadata(key, value)
WMCall(g, key, value) ==
    /\ pc[g] = "idle"
    /\ pc' = [pc EXCEPT ![g] = Head(WithMetadataCode)]
    /\ loc' = [loc EXCEPT ![g] = [NoLocals EXCEPT !.key = key, !.value = value]]
    /\ written' = WrittenAtCall(g, key)
    /\ op' = "WithMetadata"
    /\ UNCHANGED <<e, maps, mu, hist, metaConcFrame>>

\* e.mu.Lock(): take the inner mutex
WMLock(g) ==
    /\ pc[g] = "wm_lock"
    /\ LockCanAnnounce(mu)
    /\ mu' = LockAnnounce(mu, g)
    /\ pc' = [pc EXCEPT ![g] = After(WithMetadataCode, "wm_lock")]
    /\ op' = "WithMetadata"
    /\ UNCHANGED <<e, maps, loc, hist, written, metaConcFrame>>

\* e.mu.Lock(): the readers have left
WMWait(g) ==
    /\ pc[g] = "wm_wait"
    /\ LockCanReturn(mu, g)
    /\ mu' = LockReturn(mu, g)
    /\ pc' = [pc EXCEPT ![g] = After(WithMetadataCode, "wm_wait")]
    /\ op' = "WithMetadata"
    /\ UNCHANGED <<e, maps, loc, hist, written, metaConcFrame>>

\* if e.metadata == nil
WMNil(g) ==
    /\ pc[g] = "wm_nil"
    /\ pc' = [pc EXCEPT ![g] = IF e.metadata = Nil THEN "wm_make" ELSE "wm_store"]
    /\ op' = "WithMetadata"
    /\ UNCHANGED <<e, maps, mu, loc, hist, written, metaConcFrame>>

\* e.metadata = make(map[string]string); the map it replaces is garbage
WMMake(g) ==
    /\ pc[g] = "wm_make"
    /\ LET ref == NewMapId({held})
       IN  /\ e' = [e EXCEPT !.metadata = ref]
           /\ maps' = Collect([maps EXCEPT ![ref] = EmptyMap], {held, ref})
    /\ hist' = HistAfterStore(EmptyMap)
    /\ pc' = [pc EXCEPT ![g] = "wm_store"]
    /\ op' = "WithMetadata"
    /\ UNCHANGED <<mu, loc, written, metaConcFrame>>

\* e.metadata[key] = value; return e
WMStore(g) ==
    /\ pc[g] = "wm_store"
    /\ e.metadata # Nil
    /\ maps' = [maps EXCEPT ![e.metadata] = MapStore(@, loc[g].key, loc[g].value)]
    /\ hist' = HistAfterStore(MapStore(maps[e.metadata], loc[g].key, loc[g].value))
    /\ pc' = [pc EXCEPT ![g] = After(WithMetadataCode, "wm_store")]
    /\ IF After(WithMetadataCode, "wm_store") = "idle"
       THEN /\ written' = WrittenAtReturn(g, loc[g].key, loc[g].value)
            /\ loc' = [loc EXCEPT ![g] = NoLocals]
       ELSE UNCHANGED <<written, loc>>
    /\ op' = "WithMetadata"
    /\ UNCHANGED <<e, mu, metaConcFrame>>

\* deferred e.mu.Unlock(); the call has returned
WMUnlock(g) ==
    /\ pc[g] = "wm_unlock"
    /\ mu' = Unlock(mu, g)
    /\ written' = WrittenAtReturn(g, loc[g].key, loc[g].value)
    /\ loc' = [loc EXCEPT ![g] = NoLocals]
    /\ pc' = [pc EXCEPT ![g] = "idle"]
    /\ op' = "WithMetadata"
    /\ UNCHANGED <<e, maps, hist, metaConcFrame>>

\* a goroutine calls e.GetAllMetadata()
GACall(g) ==
    /\ pc[g] = "idle"
    /\ pc' = [pc EXCEPT ![g] = Head(GetAllMetadataCode)]
    /\ loc' = [loc EXCEPT ![g] = NoLocals]
    /\ op' = "GetAllMetadata"
    /\ UNCHANGED <<e, maps, mu, hist, written, metaConcFrame>>

\* e.mu.RLock(): enter or block
GARLock(g) ==
    /\ pc[g] = "ga_rlock"
    /\ mu' = RLock(mu, g)
    /\ pc' = [pc EXCEPT ![g] = After(GetAllMetadataCode, "ga_rlock")]
    /\ op' = "GetAllMetadata"
    /\ UNCHANGED <<e, maps, loc, hist, written, metaConcFrame>>

\* e.mu.RLock() returns
GARWait(g) ==
    /\ pc[g] = "ga_rwait"
    /\ RLockReturned(mu, g)
    /\ pc' = [pc EXCEPT ![g] = After(GetAllMetadataCode, "ga_rwait")]
    /\ op' = "GetAllMetadata"
    /\ UNCHANGED <<e, maps, mu, loc, hist, written, metaConcFrame>>

\* if e.metadata == nil { return make(map[string]string) }; copy := make(...)
GANil(g) ==
    /\ pc[g] = "ga_nil"
    /\ pc' = [pc EXCEPT ![g] = IF e.metadata = Nil THEN "ga_ret" ELSE "ga_copy"]
    /\ loc' = [loc EXCEPT ![g].copy = EmptyMap, ![g].seen = {}]
    /\ hist' = [hist EXCEPT ![g] = {StoreValue}]
    /\ op' = "GetAllMetadata"
    /\ UNCHANGED <<e, maps, mu, written, metaConcFrame>>

\* for k, v := range e.metadata { copy[k] = v }: one iteration over an entry
\* not yet visited, or the end of the loop when none is left
GACopy(g) ==
    /\ pc[g] = "ga_copy"
    /\ LET m == StoreValue
           todo == DOMAIN m \ loc[g].seen
       IN  IF todo = {}
           THEN /\ pc' = [pc EXCEPT ![g] = After(GetAllMetadataCode, "ga_copy")]
                /\ UNCHANGED loc
           ELSE /\ \E k \in todo :
                      loc' = [loc EXCEPT ![g].copy = MapStore(@, k, m[k]),
                                         ![g].seen = @ \cup {k}]
                /\ UNCHANGED pc
    /\ op' = "GetAllMetadata"
    /\ UNCHANGED <<e, maps, mu, hist, written, metaConcFrame>>

\* return copy
GARet(g) ==
    /\ pc[g] = "ga_ret"
    /\ pc' = [pc EXCEPT ![g] = After(GetAllMetadataCode, "ga_ret")]
    /\ IF After(GetAllMetadataCode, "ga_ret") = "idle"
       THEN /\ loc' = [loc EXCEPT ![g] = NoLocals]
            /\ hist' = [hist EXCEPT ![g] = {}]
       ELSE UNCHANGED <<loc, hist>>
    /\ op' = "GetAllMetadata"
    /\ UNCHANGED <<e, maps, mu, written, metaConcFrame>>

\* deferred e.mu.RUnlock(); the call has returned
GARUnlock(g) ==
    /\ pc[g] = "ga_runlock"
    /\ mu' = RUnlock(mu, g)
    /\ loc' = [loc EXCEPT ![g] = NoLocals]
    /\ hist' = [hist EXCEPT ![g] = {}]
    /\ pc' = [pc EXCEPT ![g] = "idle"]
    /\ op' = "GetAllMetadata"
    /\ UNCHANGED <<e, maps, written, metaConcFrame>>

NextMetaConc ==
    \E g \in Goroutines :
        \/ \E key \in ConcKeys, value \in Vals : WMCall(g, key, value)
        \/ WMLock(g)
        \/ WMWait(g)
        \/ WMNil(g)
        \/ WMMake(g)
        \/ WMStore(g)
        \/ WMUnlock(g)
        \/ GACall(g)
        \/ GARLock(g)
        \/ GARWait(g)
        \/ GANil(g)
        \/ GACopy(g)
        \/ GARet(g)
        \/ GARUnlock(g)

SpecMetaConc == Init /\ [][NextMetaConc]_vars

\* C1: once every call has returned, each key has an entry, and a key
\* written by one goroutine only (pairwise distinct keys) holds the value of
\* that goroutine's last write; the store has exactly the written keys
NoLostUpdates ==
    (\A g \in Goroutines : pc[g] = "idle") =>
        /\ DOMAIN StoreValue = {k \in ConcKeys : written[k].by # 0}
        /\ \A k \in ConcKeys : written[k].by > 0 => StoreValue[k] = written[k].val

\* two goroutines have written one key each and both calls have returned
NoLostUpdatesWitness ==
    /\ \A g \in Goroutines : pc[g] = "idle"
    /\ \E k1, k2 \in ConcKeys :
          /\ written[k1].by > 0 /\ written[k2].by > 0
          /\ written[k1].by # written[k2].by
          /\ StoreValue[k1] = "v1" /\ StoreValue[k2] = "v1"

\* C2: the map GetAllMetadata returns is a value the store had at one
\* instant of the copy: the state before or after each concurrent write,
\* never a mixture
SnapshotRead ==
    \A g \in Goroutines : pc[g] = "ga_ret" => loc[g].copy \in hist[g]

\* a reader returns the store while a writer has announced itself and waits
SnapshotReadWitness ==
    \E g \in Goroutines, w \in Goroutines :
        /\ pc[g] = "ga_ret"
        /\ pc[w] = "wm_wait"
        /\ DOMAIN loc[g].copy = ConcKeys

----------------------------------------------------------------------------
(* Goroutines on the request id and on the configuration *)

WithRequestIDCode     == <<"wr_store">>
ShortErrorCode        == <<"se_test", "se_fmt">>
SetConfigCode         == <<"sc_lock", "sc_wait", "sc_store", "sc_unlock">>
GetConfigCode         == <<"gc_rlock", "gc_rwait", "gc_copy", "gc_runlock">>
ClientSafeMessageCode == <<"cs_load", "cs_ret">>

RequestIDInputs == {"r1", "r2"}

\* configurations the goroutines install
ConcConfigInputs == {[DefaultConfig EXCEPT !.ProductionMode = p] : p \in BOOLEAN}

\* Config records some pointer refers to
LiveCfg(gc, l) == {gc, callerCfg} \cup {l[g].cfg : g \in Goroutines}

\* goroutines about to store to e.RequestID, other than g
OtherRequestIDWriters(g) == {h \in Goroutines \ {g} : pc[h] = "wr_store"}

\* what an unsynchronised load of e.RequestID can yield: the stored string,
\* or, racing with a store, the string being stored or a torn one
RequestIDLoad(g) ==
    IF OtherRequestIDWriters(g) = {} THEN {e.RequestID}
    ELSE {e.RequestID, "torn"} \cup {loc[h].str : h \in OtherRequestIDWriters(g)}

\* what e.RequestID can hold after goroutine g's unsynchronised store
RequestIDStore(g) ==
    IF OtherRequestIDWriters(g) = {} THEN {loc[g].str} ELSE {loc[g].str, "torn"}

\* goroutines about to store to globalConfig, other than g
OtherConfigWriters(g) == {h \in Goroutines \ {g} : pc[h] = "sc_store"}

\* what an unsynchronised load of globalConfig can yield: the stored
\* pointer, or, racing with a store, the pointer being stored
GlobalConfigLoad(g) == {globalConfig} \cup {loc[h].cfg : h \in OtherConfigWriters(g)}

\* ClientSafeMessage, given the production mode it read; the broken variant
\* leaves the message of an external error as it is
ClientSafeMessageOfInternalOnly(production) ==
    IF production /\ e.Category = ErrorCategoryInternal
    THEN "An internal error occurred"
    ELSE e.Message

ClientSafeMessageOf(production) ==
    IF production
    THEN IF e.Category = ErrorCategoryInternal THEN "An internal error occurred"
         ELSE IF e.Category = ErrorCategoryExternal THEN "A service is temporarily unavailable"
         ELSE e.Message
    ELSE e.Message

fieldConcFrame == <<maps, held, refMap, retVal, retFound, callerCfg, refConfig, stackVars, chainVars, hist, written,
                    ec, renderVars>>

\* a goroutine calls e.WithRequestID(id)
WRCall(g, id) ==
    /\ pc[g] = "idle"
    /\ pc' = [pc EXCEPT ![g] = Head(WithRequestIDCode)]
    /\ loc' = [loc EXCEPT ![g] = [NoLocals EXCEPT !.str = id]]
    /\ op' = "WithRequestID"
    /\ UNCHANGED <<e, cfgHeap, globalConfig, mu, globalConfigMu, fieldConcFrame>>

\* e.RequestID = requestID; return e
WRStore(g) ==
    /\ pc[g] = "wr_store"
    /\ \E s \in RequestIDStore(g) : e' = [e EXCEPT !.RequestID = s]
    /\ pc' = [pc EXCEPT ![g] = After(WithRequestIDCode, "wr_store")]
    /\ loc' = [loc EXCEPT ![g] = NoLocals]
    /\ op' = "WithRequestID"
    /\ UNCHANGED <<cfgHeap, globalConfig, mu, globalConfigMu, fieldConcFrame>>

\* a goroutine calls e.ShortError()
SECall(g) ==
    /\ pc[g] = "idle"
    /\ pc' = [pc EXCEPT ![g] = Head(ShortErrorCode)]
    /\ loc' = [loc EXCEPT ![g] = NoLocals]
    /\ op' = "ShortError"
    /\ UNCHANGED <<e, cfgHeap, globalConfig, mu, globalConfigMu, fieldConcFrame>>

\* if e.RequestID != "": without a request id the short form is returned
SETest(g) ==
    /\ pc[g] = "se_test"
    /\ \E s \in RequestIDLoad(g) :
          pc' = [pc EXCEPT ![g] = IF s # "" THEN "se_fmt" ELSE "idle"]
    /\ op' = "ShortError"
    /\ UNCHANGED <<e, loc, cfgHeap, globalConfig, mu, globalConfigMu, fieldConcFrame>>

\* return fmt.Sprintf("[%s] %s (%s): %s", e.RequestID, ...)
SEFmt(g) ==
    /\ pc[g] = "se_fmt"
    /\ \E s \in RequestIDLoad(g) : loc' = [loc EXCEPT ![g].str = s]
    /\ pc' = [pc EXCEPT ![g] = After(ShortErrorCode, "se_fmt")]
    /\ op' = "ShortError"
    /\ UNCHANGED <<e, cfgHeap, globalConfig, mu, globalConfigMu, fieldConcFrame>>

\* a goroutine calls SetConfig(&Config{...})
SCCall(g, c) ==
    /\ pc[g] = "idle"
    /\ LET ref == NewCfgId(LiveCfg(globalConfig, loc))
       IN  /\ cfgHeap' = [cfgHeap EXCEPT ![ref] = c]
           /\ loc' = [loc EXCEPT ![g] = [NoLocals EXCEPT !.cfg = ref]]
    /\ pc' = [pc EXCEPT ![g] = Head(SetConfigCode)]
    /\ op' = "SetConfig"
    /\ UNCHANGED <<e, globalConfig, mu, globalConfigMu, fieldConcFrame>>

\* a goroutine calls SetConfig(nil): nothing is locked, nothing changes
SCNil(g) ==
    /\ pc[g] = "idle"
    /\ op' = "SetConfigNil"
    /\ UNCHANGED <<e, pc, loc, cfgHeap, globalConfig, mu, globalConfigMu, fieldConcFrame>>

\* globalConfigMu.Lock(): take the inner mutex
SCLock(g) ==
    /\ pc[g] = "sc_lock"
    /\ LockCanAnnounce(globalConfigMu)
    /\ globalConfigMu' = LockAnnounce(globalConfigMu, g)
    /\ pc' = [pc EXCEPT ![g] = After(SetConfigCode, "sc_lock")]
    /\ op' = "SetConfig"
    /\ UNCHANGED <<e, loc, cfgHeap, globalConfig, mu, fieldConcFrame>>

\* globalConfigMu.Lock(): the readers have left
SCWait(g) ==
    /\ pc[g] = "sc_wait"
    /\ LockCanReturn(globalConfigMu, g)
    /\ globalConfigMu' = LockReturn(globalConfigMu, g)
    /\ pc' = [pc EXCEPT ![g] = After(SetConfigCode, "sc_wait")]
    /\ op' = "SetConfig"
    /\ UNCHANGED <<e, loc, cfgHeap, globalConfig, mu, fieldConcFrame>>

\* globalConfig = config
SCStore(g) ==
    /\ pc[g] = "sc_store"
    /\ globalConfig' = loc[g].cfg
    /\ loc' = [loc EXCEPT ![g].cfg = Nil]
    /\ cfgHeap' = CollectCfg(cfgHeap, LiveCfg(loc[g].cfg, [loc EXCEPT ![g].cfg = Nil]))
    /\ pc' = [pc EXCEPT ![g] = After(SetConfigCode, "sc_store")]
    /\ op' = "SetConfig"
    /\ UNCHANGED <<e, mu, globalConfigMu, fieldConcFrame>>

\* globalConfigMu.Unlock()
SCUnlock(g) ==
    /\ pc[g] = "sc_unlock"
    /\ globalConfigMu' = Unlock(globalConfigMu, g)
    /\ pc' = [pc EXCEPT ![g] = "idle"]
    /\ loc' = [loc EXCEPT ![g] = NoLocals]
    /\ op' = "SetConfig"
    /\ UNCHANGED <<e, cfgHeap, globalConfig, mu, fieldConcFrame>>

\* a goroutine calls GetConfig()
GCCall(g) ==
    /\ pc[g] = "idle"
    /\ pc' = [pc EXCEPT ![g] = Head(GetConfigCode)]
    /\ loc' = [loc EXCEPT ![g] = NoLocals]
    /\ op' = "GetConfig"
    /\ UNCHANGED <<e, cfgHeap, globalConfig, mu, globalConfigMu, fieldConcFrame>>

\* globalConfigMu.RLock(): enter or block
GCRLock(g) ==
    /\ pc[g] = "gc_rlock"
    /\ globalConfigMu' = RLock(globalConfigMu, g)
    /\ pc' = [pc EXCEPT ![g] = After(GetConfigCode, "gc_rlock")]
    /\ op' = "GetConfig"
    /\ UNCHANGED <<e, loc, cfgHeap, globalConfig, mu, fieldConcFrame>>

\* globalConfigMu.RLock() returns
GCRWait(g) ==
    /\ pc[g] = "gc_rwait"
    /\ RLockReturned(globalConfigMu, g)
    /\ pc' = [pc EXCEPT ![g] = After(GetConfigCode, "gc_rwait")]
    /\ op' = "GetConfig"
    /\ UNCHANGED <<e, loc, cfgHeap, globalConfig, mu, globalConfigMu, fieldConcFrame>>

\* return &Config{...}: a new record with the three fields of the live one
GCCopy(g) ==
    /\ pc[g] = "gc_copy"
    /\ LET ref == NewCfgId(LiveCfg(globalConfig, loc))
       IN  /\ cfgHeap' = [cfgHeap EXCEPT ![ref] = GetConfigValue]
           /\ loc' = [loc EXCEPT ![g].cfg = ref]
    /\ pc' = [pc EXCEPT ![g] = After(GetConfigCode, "gc_copy")]
    /\ op' = "GetConfig"
    /\ UNCHANGED <<e, globalConfig, mu, globalConfigMu, fieldConcFrame>>

\* deferred globalConfigMu.RUnlock(); the caller drops the copy it got
GCRUnlock(g) ==
    /\ pc[g] = "gc_runlock"
    /\ globalConfigMu' = RUnlock(globalConfigMu, g)
    /\ pc' = [pc EXCEPT ![g] = "idle"]
    /\ loc' = [loc EXCEPT ![g] = NoLocals]
    /\ cfgHeap' = CollectCfg(cfgHeap, LiveCfg(globalConfig, [loc EXCEPT ![g] = NoLocals]))
    /\ op' = "GetConfig"
    /\ UNCHANGED <<e, globalConfig, mu, fieldConcFrame>>

\* a goroutine calls e.ClientSafeMessage()
CSCall(g) ==
    /\ pc[g] = "idle"
    /\ pc' = [pc EXCEPT ![g] = Head(ClientSafeMessageCode)]
    /\ loc' = [loc EXCEPT ![g] = NoLocals]
    /\ op' = "ClientSafeMessage"
    /\ UNCHANGED <<e, cfgHeap, globalConfig, mu, globalConfigMu, fieldConcFrame>>

\* if globalConfig.ProductionMode { switch e.Category ... }
CSLoad(g) ==
    /\ pc[g] = "cs_load"
    /\ \E ref \in GlobalConfigLoad(g) :
          loc' = [loc EXCEPT ![g].str = ClientSafeMessageOf(cfgHeap[ref].ProductionMode)]
    /\ pc' = [pc EXCEPT ![g] = After(ClientSafeMessageCode, "cs_load")]
    /\ op' = "ClientSafeMessage"
    /\ UNCHANGED <<e, cfgHeap, globalConfig, mu, globalConfigMu, fieldConcFrame>>

\* return
CSRet(g) ==
    /\ pc[g] = "cs_ret"
    /\ pc' = [pc EXCEPT ![g] = "idle"]
    /\ loc' = [loc EXCEPT ![g] = NoLocals]
    /\ op' = "ClientSafeMessage"
    /\ UNCHANGED <<e, cfgHeap, globalConfig, mu, globalConfigMu, fieldConcFrame>>

NextFieldConc ==
    \E g \in Goroutines :
        \/ \E id \in RequestIDInputs : WRCall(g, id)
        \/ WRStore(g)
        \/ SECall(g)
        \/ SETest(g)
        \/ SEFmt(g)
        \/ \E c \in ConcConfigInputs : SCCall(g, c)
        \/ SCNil(g)
        \/ SCLock(g)
        \/ SCWait(g)
        \/ SCStore(g)
        \/ SCUnlock(g)
        \/ GCCall(g)
        \/ GCRLock(g)
        \/ GCRWait(g)
        \/ GCCopy(g)
        \/ GCRUnlock(g)
        \/ CSCall(g)
        \/ CSLoad(g)
        \/ CSRet(g)

SpecFieldConc == Init /\ [][NextFieldConc]_vars

\* C3: a store to e.RequestID never coincides with another goroutine's load
\* or store of it unless the storing goroutine holds e.mu
RequestIDRaceFree ==
    \A g1, g2 \in Goroutines :
        (g1 # g2 /\ pc[g1] = "wr_store" /\ pc[g2] \in {"wr_store", "se_test", "se_fmt"})
            => HoldsWrite(mu, g1)

\* C4: a load of the live configuration by ClientSafeMessage never coincides
\* with SetConfig's store to globalConfig unless the loading goroutine holds
\* globalConfigMu
ConfigReadRaceFree ==
    \A g1, g2 \in Goroutines :
        (g1 # g2 /\ pc[g1] = "sc_store" /\ pc[g2] = "cs_load")
            => HoldsRead(globalConfigMu, g2)

----------------------------------------------------------------------------
(* Categories, machine codes and HTTP status *)

HTTP_STATUS_BAD_REQUEST           == 400
HTTP_STATUS_UNAUTHORIZED          == 401
HTTP_STATUS_FORBIDDEN             == 403
HTTP_STATUS_NOT_FOUND             == 404
HTTP_STATUS_REQUEST_TIMEOUT       == 408
HTTP_STATUS_CONFLICT              == 409
HTTP_STATUS_TOO_MANY_REQUESTS     == 429
HTTP_STATUS_INTERNAL_SERVER_ERROR == 500
HTTP_STATUS_BAD_GATEWAY           == 502

\* the broken variant of CategoryToHTTPStatus without the default branch
CategoryToHTTPStatusNoDefault(category) ==
    IF category = ErrorCategoryValidation THEN HTTP_STATUS_BAD_REQUEST
    ELSE IF category = ErrorCategoryUnauthorized THEN HTTP_STATUS_UNAUTHORIZED
    ELSE IF category = ErrorCategoryForbidden THEN HTTP_STATUS_FORBIDDEN
    ELSE IF category = ErrorCategoryNotFound THEN HTTP_STATUS_NOT_FOUND
    ELSE IF category = ErrorCategoryTimeout THEN HTTP_STATUS_REQUEST_TIMEOUT
    ELSE IF category = ErrorCategoryConflict THEN HTTP_STATUS_CONFLICT
    ELSE IF category = ErrorCategoryRateLimit THEN HTTP_STATUS_TOO_MANY_REQUESTS
    ELSE IF category = ErrorCategoryExternal THEN HTTP_STATUS_BAD_GATEWAY
    ELSE IF category = ErrorCategoryInternal THEN HTTP_STATUS_INTERNAL_SERVER_ERROR
    ELSE 0

\* CategoryToHTTPStatus: the switch, case by case
CategoryToHTTPStatus(category) ==
    IF category = ErrorCategoryValidation THEN HTTP_STATUS_BAD_REQUEST
    ELSE IF category = ErrorCategoryUnauthorized THEN HTTP_STATUS_UNAUTHORIZED
    ELSE IF category = ErrorCategoryForbidden THEN HTTP_STATUS_FORBIDDEN
    ELSE IF category = ErrorCategoryNotFound THEN HTTP_STATUS_NOT_FOUND
    ELSE IF category = ErrorCategoryTimeout THEN HTTP_STATUS_REQUEST_TIMEOUT
    ELSE IF category = ErrorCategoryConflict THEN HTTP_STATUS_CONFLICT
    ELSE IF category = ErrorCategoryRateLimit THEN HTTP_STATUS_TOO_MANY_REQUESTS
    ELSE IF category = ErrorCategoryExternal THEN HTTP_STATUS_BAD_GATEWAY
    ELSE HTTP_STATUS_INTERNAL_SERVER_ERROR

\* e.ToHTTPStatus()
ToHTTPStatus ==
    /\ ret' = [NoRet EXCEPT !.status = CategoryToHTTPStatus(e.Category)]
    /\ op' = "ToHTTPStatus"
    /\ UNCHANGED <<e, metaVars, cfgVars, stackVars, chainVars, concVars>>

\* the nine categories of the package, and values a caller can convert to
\* ErrorCategory that are none of them
DefinedCategories ==
    {ErrorCategoryValidation, ErrorCategoryNotFound, ErrorCategoryConflict,
     ErrorCategoryUnauthorized, ErrorCategoryForbidden, ErrorCategoryInternal,
     ErrorCategoryTimeout, ErrorCategoryRateLimit, ErrorCategoryExternal}

CategoryInputs == DefinedCategories \cup {"", "teapot"}

\* the errors already built that a caller can pass on
Built == {CustomBase + i : i \in 1..Len(chain)}

\* sentinel and wrapped arguments of NewCustomError
SentinelInputs == {Nil} \cup Sentinels \cup PlainErrors \cup Built
WrappedInputs  == {Nil, 10} \cup Built

NextCategory ==
    \/ \E sentinel \in {ErrNotFound, ErrTimeout}, wrapped \in {Nil, 10, Top} :
           NewCustomErrorOnto(sentinel, wrapped)
    \/ \E sentinel \in SentinelInputs, wrapped \in WrappedInputs :
           NewCustomError(sentinel, wrapped, "m1", InitStack, 1)

SpecCategory == Init /\ [][NextCategory]_vars

NextStatus ==
    \/ \E sentinel \in {Nil} \cup Sentinels, message \in {"m1", "m2"} :
           NewCustomError(sentinel, Nil, message, InitStack, 1)
    \/ \E category \in CategoryInputs, code \in {"TEST", "CUSTOM"}, message \in {"m1", "m2"} :
           NewCustomErrorWithCategory(category, code, message, InitStack, 1)
    \/ ToHTTPStatus

SpecStatus == Init /\ [][NextStatus]_vars

\* C11: two NewCustomError calls with the same sentinel give the same
\* Category and Code, whatever error each of them wraps
CategoryNotInherited ==
    [][(op = "NewCustomError" /\ op' = "NewCustomError" /\ e'.Sentinel = e.Sentinel)
          => (e'.Category = e.Category /\ e'.Code = e.Code)]_vars

\* a CustomError of another category has been wrapped under a package sentinel
CategoryNotInheritedWitness ==
    /\ op = "NewCustomError"
    /\ e.Sentinel = ErrInvalidInput
    /\ IsCustom(e.Wrapped)
    /\ chain[LevelOf(e.Wrapped)].Sentinel = ErrTimeout
    /\ e.Category = ErrorCategoryValidation

\* the lookup table of the nine package sentinels
SentinelCategory(s) ==
    CASE s = ErrNotFound      -> <<ErrorCategoryNotFound, "NOT_FOUND">>
      [] s = ErrAlreadyExists -> <<ErrorCategoryConflict, "ALREADY_EXISTS">>
      [] s = ErrInvalidInput  -> <<ErrorCategoryValidation, "INVALID_INPUT">>
      [] s = ErrUnauthorized  -> <<ErrorCategoryUnauthorized, "UNAUTHORIZED">>
      [] s = ErrForbidden     -> <<ErrorCategoryForbidden, "FORBIDDEN">>
      [] s = ErrTimeout       -> <<ErrorCategoryTimeout, "TIMEOUT">>
      [] s = ErrRateLimit     -> <<ErrorCategoryRateLimit, "RATE_LIMIT">>
      [] s = ErrExternal      -> <<ErrorCategoryExternal, "EXTERNAL_ERROR">>
      [] s = ErrInternal      -> <<ErrorCategoryInternal, "INTERNAL_ERROR">>

\* the default machine code of each category
DefaultCode(category) ==
    CASE category = ErrorCategoryNotFound     -> "NOT_FOUND"
      [] category = ErrorCategoryConflict     -> "ALREADY_EXISTS"
      [] category = ErrorCategoryValidation   -> "INVALID_INPUT"
      [] category = ErrorCategoryUnauthorized -> "UNAUTHORIZED"
      [] category = ErrorCategoryForbidden    -> "FORBIDDEN"
      [] category = ErrorCategoryTimeout      -> "TIMEOUT"
      [] category = ErrorCategoryRateLimit    -> "RATE_LIMIT"
      [] category = ErrorCategoryExternal     -> "EXTERNAL_ERROR"
      [] category = ErrorCategoryInternal     -> "INTERNAL_ERROR"

\* the errors found by following Sentinel and Wrapped links from err
RECURSIVE Reach(_)
Reach(err) ==
    IF err = Nil THEN {}
    ELSE IF IsCustom(err)
         THEN {err} \cup Reach(chain[LevelOf(err)].Sentinel)
                    \cup Reach(chain[LevelOf(err)].Wrapped)
         ELSE {err}

\* the order in which the lookup tries the sentinels that have a category of
\* their own
LookupOrder ==
    <<ErrNotFound, ErrAlreadyExists, ErrInvalidInput, ErrUnauthorized, ErrForbidden,
      ErrTimeout, ErrRateLimit, ErrExternal>>

\* the first sentinel of LookupOrder among those in r
FirstInLookupOrder(r) ==
    LookupOrder[CHOOSE i \in 1..Len(LookupOrder) :
                    /\ LookupOrder[i] \in r
                    /\ \A j \in 1..(i - 1) : LookupOrder[j] \notin r]

\* C12 as stated: the nine sentinels follow the table, every other sentinel
\* (nil included) gives internal/INTERNAL_ERROR, and the Code is the default
\* code of the Category
SentinelLookupOthersInternal ==
    op = "NewCustomError" =>
        /\ e.Sentinel \in Sentinels => <<e.Category, e.Code>> = SentinelCategory(e.Sentinel)
        /\ e.Sentinel \notin Sentinels =>
               <<e.Category, e.Code>> = <<ErrorCategoryInternal, "INTERNAL_ERROR">>
        /\ e.Code = DefaultCode(e.Category)

\* C12 amended: the nine sentinels follow the table; a sentinel from which
\* none of the eight sentinels of LookupOrder can be reached (nil included)
\* gives internal/INTERNAL_ERROR; one from which some can be reached gives
\* the table entry of the first of them in LookupOrder; the Code is the
\* default code of the Category
SentinelLookup ==
    op = "NewCustomError" =>
        LET r == Reach(e.Sentinel) \cap {LookupOrder[i] : i \in 1..Len(LookupOrder)}
        IN  /\ e.Sentinel \in Sentinels => <<e.Category, e.Code>> = SentinelCategory(e.Sentinel)
            /\ r = {} => <<e.Category, e.Code>> = <<ErrorCategoryInternal, "INTERNAL_ERROR">>
            /\ r # {} => <<e.Category, e.Code>> = SentinelCategory(FirstInLookupOrder(r))
            /\ e.Code = DefaultCode(e.Category)

\* the sentinel passed is a CustomError built on ErrTimeout over one built on
\* ErrNotFound: the lookup answered not_found
SentinelLookupWitness ==
    /\ op = "NewCustomError"
    /\ IsCustom(e.Sentinel)
    /\ {ErrNotFound, ErrTimeout} \subseteq Reach(e.Sentinel)
    /\ chain[LevelOf(e.Sentinel)].Sentinel = ErrTimeout
    /\ <<e.Category, e.Code>> = <<ErrorCategoryNotFound, "NOT_FOUND">>

\* the status table of the nine categories
StatusTable ==
    {<<ErrorCategoryValidation, 400>>, <<ErrorCategoryUnauthorized, 401>>,
     <<ErrorCategoryForbidden, 403>>, <<ErrorCategoryNotFound, 404>>,
     <<ErrorCategoryTimeout, 408>>, <<ErrorCategoryConflict, 409>>,
     <<ErrorCategoryRateLimit, 429>>, <<ErrorCategoryInternal, 500>>,
     <<ErrorCategoryExternal, 502>>}

\* C13: ToHTTPStatus answers the table entry of the error's category, and
\* 500 for a category that has no entry
HTTPStatusTotal ==
    op = "ToHTTPStatus" =>
        /\ \A row \in StatusTable : e.Category = row[1] => ret.status = row[2]
        /\ e.Category \notin {row[1] : row \in StatusTable} => ret.status = 500

\* the status of a category outside the nine has been asked for
HTTPStatusTotalWitness ==
    /\ op = "ToHTTPStatus"
    /\ e.Category = "teapot"
    /\ ret.status = 500

----------------------------------------------------------------------------
(* Render methods: ToJSON, ClientSafeMessage, ToClientJSON *)

\* the production mode every error of SpecRenderTime was constructed under
ProductionModeAtConstruction == FALSE

\* globalConfig.ProductionMode, as the render methods read it
ProductionMode == cfgHeap[globalConfig].ProductionMode

\* lines 127-133: the switch on the key; the broken variant drops the keys
\* of a deny-list instead
IsSafeKeyDenyList(k) == k \notin {"api_key", "token"}

IsSafeKey(k) == k \in {"user_id", "request_id", "trace_id", "correlation_id"}

\* lines 124-136: filteredMetadata, a new map filled from the copy
FilterMetadata(metadata) ==
    [k \in {k \in DOMAIN metadata : IsSafeKey(k)} |-> metadata[k]]

\* e.Timestamp.Format(time.RFC3339)
FormatRFC3339(t) == <<"RFC3339", t>>

\* the map both ToJSON and ToClientJSON return (the content of its "error"
\* entry): metadata and request_id are present only when non-empty
ErrorData(message, metadata) ==
    [status |-> 0, code |-> e.Code, message |-> message, category |-> e.Category,
     timestamp |-> FormatRFC3339(e.Timestamp),
     hasMetadata |-> Cardinality(DOMAIN metadata) > 0,
     metadata |-> IF Cardinality(DOMAIN metadata) > 0 THEN metadata ELSE EmptyMap,
     hasRequestID |-> e.RequestID # "",
     requestID |-> e.RequestID]

\* the error after ClientSafeMessage or ToClientJSON: neither assigns a
\* field of e; the broken variant stores the client-safe message
RenderedErrorRedacted == [e EXCEPT !.Message = ClientSafeMessageOf(ProductionMode)]

RenderedError == e

\* e.ToJSON(): the metadata is the copy GetAllMetadata makes
ToJSON ==
    /\ ret' = ErrorData(e.Message, StoreValue)
    /\ op' = "ToJSON"
    /\ UNCHANGED <<e, metaVars, cfgVars, stackVars, chainVars, concVars>>

\* e.ClientSafeMessage()
ClientSafeMessage ==
    /\ ret' = [NoRet EXCEPT !.message = ClientSafeMessageOf(ProductionMode)]
    /\ e' = RenderedError
    /\ op' = "ClientSafeMessage"
    /\ UNCHANGED <<metaVars, cfgVars, stackVars, chainVars, concVars>>

\* e.ToClientJSON()
ToClientJSON ==
    LET metadata == IF ProductionMode THEN FilterMetadata(StoreValue) ELSE StoreValue
    IN  /\ ret' = ErrorData(ClientSafeMessageOf(ProductionMode), metadata)
        /\ e' = RenderedError
        /\ op' = "ToClientJSON"
        /\ UNCHANGED <<metaVars, cfgVars, stackVars, chainVars, concVars>>

\* e.WithRequestID(requestID), called by one goroutine
WithRequestID(requestID) ==
    /\ e' = [e EXCEPT !.RequestID = requestID]
    /\ ret' = NoRet
    /\ op' = "WithRequestID"
    /\ UNCHANGED <<metaVars, cfgVars, stackVars, chainVars, concVars>>

RenderCategories ==
    {ErrorCategoryInternal, ErrorCategoryExternal, ErrorCategoryValidation, "teapot"}

NextRender ==
    \/ \E category \in RenderCategories, message \in {"m1", "m2"} :
           NewCustomErrorWithCategory(category, "TEST", message, InitStack, 1)
    \/ \E key \in Keys, value \in Vals : WithMetadata(key, value)
    \/ \E requestID \in {"", "r1"} : WithRequestID(requestID)
    \/ \E c \in {c \in ConfigInputs :
                    c.EnableStackTrace /\ c.MaxStackDepth = DEFAULT_STACK_DEPTH} : SetConfig(c)
    \/ ToJSON
    \/ ClientSafeMessage
    \/ ToClientJSON

SpecRender == Init /\ [][NextRender]_vars

\* the metadata a returned payload carries: none when the entry is absent
PayloadMetadata == IF ret.hasMetadata THEN ret.metadata ELSE EmptyMap

AllowList == {"user_id", "request_id", "trace_id", "correlation_id"}

ProductionMessage ==
    op \in {"ClientSafeMessage", "ToClientJSON"} =>
        ret.message =
            CASE ProductionMode /\ e.Category = ErrorCategoryInternal ->
                     "An internal error occurred"
              [] ProductionMode /\ e.Category = ErrorCategoryExternal ->
                     "A service is temporarily unavailable"
              [] OTHER -> e.Message

\* an external error was rendered for a client in production mode
ProductionMessageWitness ==
    /\ op = "ToClientJSON"
    /\ ProductionMode
    /\ e.Category = ErrorCategoryExternal
    /\ e.Message = "m2"
    /\ ret.message = "A service is temporarily unavailable"

\* C16: ClientSafeMessage and ToClientJSON leave Message, metadata,
\* RequestID and stack trace as they were, and a ToJSON that follows shows
\* the Message and the full metadata
RenderTimeOnly ==
    [][/\ op' \in {"ClientSafeMessage", "ToClientJSON"} =>
              /\ e'.Message = e.Message
              /\ StoreValue' = StoreValue
              /\ e'.RequestID = e.RequestID
              /\ GetStackTraceOf' = GetStackTraceOf
       /\ (op \in {"ClientSafeMessage", "ToClientJSON"} /\ op' = "ToJSON") =>
              /\ ret'.message = e.Message
              /\ PayloadMetadata' = StoreValue]_vars

\* a production-mode ToClientJSON has hidden the message and a metadata
\* entry in its payload, and the error still holds both
RenderTimeOnlyWitness ==
    /\ op = "ToClientJSON"
    /\ ProductionMode
    /\ e.Category = ErrorCategoryInternal
    /\ e.Message = "m1"
    /\ ret.message = "An internal error occurred"
    /\ "password" \in DOMAIN StoreValue
    /\ "password" \notin DOMAIN PayloadMetadata
    /\ e.RequestID = "r1"

----------------------------------------------------------------------------
(* Stack-trace mutators and the write-once fields *)

\* frames a caller hands to WithStackTrace
CallerFrames ==
    <<[Function |-> <<"svc", ".", "Handle">>, File |-> "f.go", Line |-> 7],
      [Function |-> <<"testing", ".", "tRunner">>, File |-> "f.go", Line |-> 8]>>

FrameInputs == {SubSeq(CallerFrames, 1, n) : n \in 0..Len(CallerFrames)}

\* pattern lists a caller hands to FilterStackTrace
PatternInputs == {<<>>, << <<"testing", ".">> >>, << <<"svc">>, <<"repo">> >>}

\* a test that asks for every pattern to match
ShouldFilterEvery(frame, patterns) ==
    \A i \in 1..Len(patterns) : Contains(frame.Function, patterns[i])

\* lines 145-151: shouldFilter
ShouldFilter(frame, patterns) ==
    \E i \in 1..Len(patterns) : Contains(frame.Function, patterns[i])

\* lines 143-155: the frames no pattern matches, in order
RECURSIVE Filtered(_, _)
Filtered(frames, patterns) ==
    IF frames = <<>> THEN <<>>
    ELSE IF ShouldFilter(Head(frames), patterns)
         THEN Filtered(Tail(frames), patterns)
         ELSE <<Head(frames)>> \o Filtered(Tail(frames), patterns)

\* e.FilterStackTrace(patterns...)
FilterStackTrace(patterns) ==
    /\ e' = IF Len(e.stackTrace) = 0 \/ Len(patterns) = 0 THEN e
            ELSE [e EXCEPT !.stackTrace = Filtered(e.stackTrace, patterns)]
    /\ ret' = NoRet
    /\ retStack' = <<>>
    /\ filterArgs' = patterns
    /\ op' = "FilterStackTrace"
    /\ UNCHANGED <<metaVars, cfgVars, callStack, callerSlice, chainVars, concVars>>

\* the error after WithStackTrace(frames); the broken variant leaves the
\* cleared flag as it was
WithStackTraceErrorFlagKept(frames) ==
    [e EXCEPT !.stackTrace = [i \in 1..Len(frames) |-> frames[i]]]

WithStackTraceError(frames) ==
    [e EXCEPT !.stackTrace = [i \in 1..Len(frames) |-> frames[i]],
              !.stackTraceCleared = FALSE]

\* e.WithStackTrace(frames): a copy of the caller's slice is stored
WithStackTrace(frames) ==
    /\ e' = WithStackTraceError(frames)
    /\ ret' = NoRet
    /\ retStack' = <<>>
    /\ op' = "WithStackTrace"
    /\ UNCHANGED <<metaVars, cfgVars, callStack, callerSlice, filterArgs, chainVars, concVars>>

\* the error after ClearStackTrace; the broken variant also lets go of the
\* wrapped error
ClearStackTraceErrorUnwrapped ==
    [e EXCEPT !.stackTrace = <<>>, !.stackTraceCleared = TRUE, !.Wrapped = Nil]

ClearStackTraceError == [e EXCEPT !.stackTrace = <<>>, !.stackTraceCleared = TRUE]

\* e.ClearStackTrace()
ClearStackTrace ==
    /\ e' = ClearStackTraceError
    /\ ret' = NoRet
    /\ retStack' = <<>>
    /\ op' = "ClearStackTrace"
    /\ UNCHANGED <<metaVars, cfgVars, callStack, callerSlice, filterArgs, chainVars, concVars>>

\* e.Error()
Error ==
    /\ ret' = [NoRet EXCEPT !.message =
                  IF e.Wrapped # Nil THEN <<e.Message, ": ", e.Wrapped>> ELSE <<e.Message>>]
    /\ op' = "Error"
    /\ UNCHANGED <<e, metaVars, cfgVars, stackVars, chainVars, concVars>>

\* readings of the clock at construction
Times == {1, 2}

NextFields ==
    \/ \E now \in Times :
           NewCustomError(ErrNotFound, IF now = 1 THEN Nil ELSE 10,
                          IF now = 1 THEN "m1" ELSE "m2", InitStack, now)
    \/ \E now \in Times :
           NewCustomErrorWithCategory(ErrorCategoryTimeout, "CUSTOM", "m1", InitStack, now)
    \/ \E key \in Keys : WithMetadata(key, "v1")
    \/ \E requestID \in {"", "r1"} : WithRequestID(requestID)
    \/ \E frames \in FrameInputs : WithStackTrace(frames)
    \/ \E patterns \in PatternInputs : FilterStackTrace(patterns)
    \/ ClearStackTrace
    \/ GetStackTrace
    \/ \E key \in Keys : GetMetadata(key)
    \/ Error
    \/ ToHTTPStatus
    \/ ToJSON
    \/ ClientSafeMessage
    \/ ToClientJSON

SpecFields == Init /\ [][NextFields]_vars

\* C17: once a constructor has returned, no method changes Category, Code,
\* Message, Wrapped, Sentinel or Timestamp
WriteOnceFields ==
    [][op' \notin Constructors =>
           /\ e'.Category = e.Category
           /\ e'.Code = e.Code
           /\ e'.Message = e.Message
           /\ e'.Wrapped = e.Wrapped
           /\ e'.Sentinel = e.Sentinel
           /\ e'.Timestamp = e.Timestamp]_vars

\* an error wrapping a plain error has had metadata and a request id added
\* and its stack trace cleared
WriteOnceFieldsWitness ==
    /\ op = "ClearStackTrace"
    /\ e.stackTraceCleared
    /\ e.metadata # Nil
    /\ e.RequestID = "r1"
    /\ e.Wrapped = 10
    /\ e.Sentinel = ErrNotFound
    /\ e.Timestamp = 2
    /\ e.Message = "m2"

----------------------------------------------------------------------------
(* Lock discipline of every operation: which mutex each method locks, in    *)
(* which order, around which part of its body                               *)

\* the goroutines that make calls here
Callers == {1, 2}

\* the instructions of a method that matter for blocking: the two halves
\* of Lock and of RLock, Unlock, RUnlock, the part of the body that runs
\* in between, a test of the copied configuration, and the return
I(do, mutex) == [do |-> do, mutex |-> mutex]

WriteLocked(mutex) ==
    <<I("Lock", mutex), I("LockWait", mutex), I("body", mutex), I("Unlock", mutex)>>

ReadLocked(mutex) ==
    <<I("RLock", mutex), I("RLockWait", mutex), I("body", mutex), I("RUnlock", mutex)>>

\* DetailedError: GetAllMetadata (line 64), then RLock .. RUnlock around the
\* copy of the stack trace (lines 78-81); the broken variant calls
\* GetAllMetadata with the read lock already held
DetailedErrorProgramNested ==
    <<I("RLock", "mu"), I("RLockWait", "mu")>> \o ReadLocked("mu")
        \o <<I("body", "mu"), I("RUnlock", "mu"), I("return", "")>>

DetailedErrorProgram ==
    ReadLocked("mu") \o ReadLocked("mu") \o <<I("return", "")>>

\* NewCustomError: GetConfig (line 2287), and, when capture is enabled,
\* captureStackTrace, which calls GetConfig again (stack.go line 11)
NewCustomErrorProgram ==
    ReadLocked("cfg") \o <<I("ifDisabledReturn", "")>> \o ReadLocked("cfg")
        \o <<I("return", "")>>

\* ToClientJSON: GetAllMetadata, then the reads of globalConfig with no lock
ToClientJSONProgram ==
    ReadLocked("mu") \o <<I("body", ""), I("return", "")>>

LockProgram(method) ==
    CASE method = "WithMetadata"    -> WriteLocked("mu") \o <<I("return", "")>>
      [] method = "ClearStackTrace" -> WriteLocked("mu") \o <<I("return", "")>>
      [] method = "DetailedError"   -> DetailedErrorProgram
      [] method = "ToClientJSON"    -> ToClientJSONProgram
      [] method = "NewCustomError"  -> NewCustomErrorProgram
      [] method = "SetConfig"       -> WriteLocked("cfg") \o <<I("return", "")>>
      [] method = "SetConfigNil"    -> <<I("return", "")>>
      [] method = "GetConfig"       -> ReadLocked("cfg") \o <<I("return", "")>>

Methods ==
    {"WithMetadata", "ClearStackTrace", "DetailedError", "ToClientJSON",
     "NewCustomError", "SetConfig", "SetConfigNil", "GetConfig"}

\* the instruction goroutine g is at
InCall(g) == pc[g] \in Methods
Instr(g)  == LockProgram(pc[g])[loc[g].ip]

MutexOf(name) == IF name = "mu" THEN mu ELSE globalConfigMu

\* the named mutex becomes m
SetMutex(name, m) ==
    IF name = "mu" THEN mu' = m /\ UNCHANGED globalConfigMu
    ELSE globalConfigMu' = m /\ UNCHANGED mu

Advance(g) == loc' = [loc EXCEPT ![g].ip = @ + 1]

lockFrame == <<held, refMap, retVal, retFound, callerCfg, refConfig, stackVars, chainVars, hist, written,
               ec, renderVars>>

\* configurations SetConfig installs here
LockConfigInputs == {[DefaultConfig EXCEPT !.EnableStackTrace = b] : b \in BOOLEAN}

\* goroutine g calls a method; c is the record SetConfig's argument points to
LCall(g, method, c) ==
    /\ pc[g] = "idle"
    /\ pc' = [pc EXCEPT ![g] = method]
    /\ loc' = [loc EXCEPT ![g] = [NoLocals EXCEPT !.config = c, !.ip = 1]]
    /\ op' = "call"
    /\ UNCHANGED <<e, maps, cfgHeap, globalConfig, mu, globalConfigMu, lockFrame>>

\* Lock(): take the inner mutex
LLock(g) ==
    /\ InCall(g) /\ Instr(g).do = "Lock"
    /\ LockCanAnnounce(MutexOf(Instr(g).mutex))
    /\ SetMutex(Instr(g).mutex, LockAnnounce(MutexOf(Instr(g).mutex), g))
    /\ Advance(g)
    /\ op' = "step"
    /\ UNCHANGED <<e, maps, cfgHeap, globalConfig, pc, lockFrame>>

\* Lock(): the readers have left
LLockWait(g) ==
    /\ InCall(g) /\ Instr(g).do = "LockWait"
    /\ LockCanReturn(MutexOf(Instr(g).mutex), g)
    /\ SetMutex(Instr(g).mutex, LockReturn(MutexOf(Instr(g).mutex), g))
    /\ Advance(g)
    /\ op' = "step"
    /\ UNCHANGED <<e, maps, cfgHeap, globalConfig, pc, lockFrame>>

\* Unlock()
LUnlock(g) ==
    /\ InCall(g) /\ Instr(g).do = "Unlock"
    /\ SetMutex(Instr(g).mutex, Unlock(MutexOf(Instr(g).mutex), g))
    /\ Advance(g)
    /\ op' = "step"
    /\ UNCHANGED <<e, maps, cfgHeap, globalConfig, pc, lockFrame>>

\* RLock(): enter or block
LRLock(g) ==
    /\ InCall(g) /\ Instr(g).do = "RLock"
    /\ SetMutex(Instr(g).mutex, RLock(MutexOf(Instr(g).mutex), g))
    /\ Advance(g)
    /\ op' = "step"
    /\ UNCHANGED <<e, maps, cfgHeap, globalConfig, pc, lockFrame>>

\* RLock() returns
LRLockWait(g) ==
    /\ InCall(g) /\ Instr(g).do = "RLockWait"
    /\ RLockReturned(MutexOf(Instr(g).mutex), g)
    /\ Advance(g)
    /\ op' = "step"
    /\ UNCHANGED <<e, maps, cfgHeap, globalConfig, mu, globalConfigMu, pc, lockFrame>>

\* RUnlock()
LRUnlock(g) ==
    /\ InCall(g) /\ Instr(g).do = "RUnlock"
    /\ SetMutex(Instr(g).mutex, RUnlock(MutexOf(Instr(g).mutex), g))
    /\ Advance(g)
    /\ op' = "step"
    /\ UNCHANGED <<e, maps, cfgHeap, globalConfig, pc, lockFrame>>

\* the body of the method between its lock calls: WithMetadata stores
\* user_id, ClearStackTrace drops the frames, SetConfig installs its record
\* (the record it replaces is reclaimed and its cell reused), GetConfig
\* copies the live record, the readers copy what they read
LBody(g) ==
    /\ InCall(g) /\ Instr(g).do = "body"
    /\ LET m       == pc[g]
           mapRef  == IF e.metadata = Nil THEN NewMapId({held}) ELSE e.metadata
           base    == IF e.metadata = Nil THEN EmptyMap ELSE maps[e.metadata]
           cfgRef  == NewCfgId({})
       IN  /\ e' = IF m = "WithMetadata" THEN [e EXCEPT !.metadata = mapRef]
                   ELSE IF m = "ClearStackTrace" THEN ClearStackTraceError
                   ELSE e
           /\ maps' = IF m = "WithMetadata"
                      THEN [maps EXCEPT ![mapRef] = MapStore(base, "user_id", "v1")]
                      ELSE maps
           /\ globalConfig' = IF m = "SetConfig" THEN cfgRef ELSE globalConfig
           /\ cfgHeap' = IF m = "SetConfig"
                         THEN CollectCfg([cfgHeap EXCEPT ![cfgRef] = loc[g].config], {cfgRef})
                         ELSE cfgHeap
           /\ loc' = [loc EXCEPT
                  ![g] = [@ EXCEPT
                      !.ip = @ + 1,
                      !.config = IF m \in {"GetConfig", "NewCustomError"}
                                 THEN GetConfigValue ELSE @,
                      !.copy = IF m \in {"DetailedError", "ToClientJSON"}
                                   /\ Instr(g).mutex = "mu"
                               THEN StoreValue ELSE @]]
    /\ op' = "step"
    /\ UNCHANGED <<mu, globalConfigMu, pc, lockFrame>>

\* if !config.EnableStackTrace: the constructor returns without capturing
LIfDisabledReturn(g) ==
    /\ InCall(g) /\ Instr(g).do = "ifDisabledReturn"
    /\ loc' = [loc EXCEPT ![g].ip = IF loc[g].config.EnableStackTrace THEN @ + 1
                                    ELSE Len(LockProgram(pc[g]))]
    /\ op' = "step"
    /\ UNCHANGED <<e, maps, cfgHeap, globalConfig, mu, globalConfigMu, pc, lockFrame>>

\* the call returns; the caller drops what it got
LReturn(g) ==
    /\ InCall(g) /\ Instr(g).do = "return"
    /\ pc' = [pc EXCEPT ![g] = "idle"]
    /\ loc' = [loc EXCEPT ![g] = NoLocals]
    /\ op' = "step"
    /\ UNCHANGED <<e, maps, cfgHeap, globalConfig, mu, globalConfigMu, lockFrame>>

\* a step of a call goroutine g has made
LStep(g) ==
    \/ LLock(g)
    \/ LLockWait(g)
    \/ LUnlock(g)
    \/ LRLock(g)
    \/ LRLockWait(g)
    \/ LRUnlock(g)
    \/ LBody(g)
    \/ LIfDisabledReturn(g)
    \/ LReturn(g)

NextLocks ==
    \E g \in Callers :
        \/ \E method \in Methods \ {"SetConfig"} : LCall(g, method, DefaultConfig)
        \/ \E c \in LockConfigInputs : LCall(g, "SetConfig", c)
        \/ LStep(g)

\* a goroutine inside a call keeps running, and a goroutine waiting for the
\* inner mutex of Lock gets it if it is free again and again (sync.Mutex
\* hands the mutex to a starving waiter)
SpecLocks ==
    /\ Init
    /\ [][NextLocks]_vars
    /\ \A g \in Callers : WF_vars(LStep(g)) /\ SF_vars(LLock(g))

\* C18: every call a goroutine makes returns
EveryCallReturns == \A g \in Callers : InCall(g) ~> (pc[g] = "idle")

\* goroutine 1 is in DetailedError, blocked in its second RLock behind
\* goroutine 2, which has announced itself as writer of e.mu
EveryCallReturnsWitness ==
    /\ pc[1] = "DetailedError"
    /\ loc[1].ip > Len(ReadLocked("mu"))
    /\ HoldsOf(mu.blocked, 1) # {}
    /\ mu.writer = 2
    /\ pc[2] \in {"WithMetadata", "ClearStackTrace"}

----------------------------------------------------------------------------
(* Configuration calls as one caller makes them, one after another:        *)
(* SetConfig(&Config{...}), SetConfig(config) with the record GetConfig    *)
(* returned (originalConfig := GetConfig(); defer SetConfig(originalConfig)*)
(* in the tests), SetConfig(nil), GetConfig(), and assignments to the      *)
(* fields of the record GetConfig returned.  callerCfg is the record the   *)
(* caller last got.                                                        *)

\* the records a caller builds or the field values it assigns
CallDepths == {5, DEFAULT_STACK_DEPTH}

ConfigCallInputs ==
    [EnableStackTrace : BOOLEAN, MaxStackDepth : CallDepths, ProductionMode : BOOLEAN]

ConfigFields == {"EnableStackTrace", "MaxStackDepth", "ProductionMode"}

FieldValues(field) == IF field = "MaxStackDepth" THEN CallDepths ELSE BOOLEAN

\* the records the caller can still reach
CallerLive == {callerCfg} \ {Nil}

\* config := GetConfig(): a new record holding copies of the three fields
GetConfig ==
    LET ref == NewCfgId({globalConfig})
    IN  /\ cfgHeap' = CollectCfg([cfgHeap EXCEPT ![ref] = GetConfigValue], {globalConfig, ref})
        /\ callerCfg' = ref
        /\ op' = "GetConfig"
        /\ ret' = NoRet
        /\ UNCHANGED <<e, metaVars, globalConfig, refConfig, stackVars, chainVars, concVars>>

\* SetConfig(&Config{...}): globalConfig = config, the new record
SetConfigLiteral(c) ==
    LET ref == NewCfgId(CallerLive)
    IN  /\ cfgHeap' = CollectCfg([cfgHeap EXCEPT ![ref] = c], CallerLive \cup {ref})
        /\ globalConfig' = ref
        /\ refConfig' = c
        /\ op' = "SetConfig"
        /\ ret' = NoRet
        /\ UNCHANGED <<e, metaVars, callerCfg, stackVars, chainVars, concVars>>

\* SetConfig(config) with the record GetConfig returned: globalConfig = config,
\* the caller's pointer itself
SetConfigReturned ==
    /\ callerCfg # Nil
    /\ globalConfig' = callerCfg
    /\ cfgHeap' = CollectCfg(cfgHeap, {callerCfg})
    /\ refConfig' = cfgHeap[callerCfg]
    /\ op' = "SetConfig"
    /\ ret' = NoRet
    /\ UNCHANGED <<e, metaVars, callerCfg, stackVars, chainVars, concVars>>

\* config.Field = value, on the record GetConfig returned
CallerSetField(field, value) ==
    /\ callerCfg # Nil
    /\ cfgHeap' = [cfgHeap EXCEPT ![callerCfg][field] = value]
    /\ op' = "CallerSetField"
    /\ ret' = NoRet
    /\ UNCHANGED <<e, metaVars, globalConfig, callerCfg, refConfig, stackVars, chainVars, concVars>>

NextConfigCalls ==
    \/ \E c \in ConfigCallInputs : SetConfigLiteral(c)
    \/ SetConfigReturned
    \/ SetConfigNil
    \/ GetConfig

SpecConfigCalls == Init /\ [][NextConfigCalls]_vars

NextConfig ==
    \/ NextConfigCalls
    \/ \E field \in ConfigFields : \E value \in FieldValues(field) : CallerSetField(field, value)

SpecConfig == Init /\ [][NextConfig]_vars

\* C19: assigning to a field of a record GetConfig returned never changes
\* what GetConfig returns, and the record a caller got keeps its field
\* values across every SetConfig call
SnapshotCopy ==
    [][/\ op' = "CallerSetField" => GetConfigValue' = GetConfigValue
       /\ op' \in {"SetConfig", "SetConfigNil"} /\ callerCfg # Nil =>
              callerCfg' = callerCfg /\ cfgHeap'[callerCfg] = cfgHeap[callerCfg]]_vars

\* C20: GetConfig returns the field values of the argument of the last
\* SetConfig call with a non-nil argument, or the defaults when there was
\* none, and SetConfig(nil) changes nothing GetConfig returns
LastSetConfigWins ==
    [][/\ op' = "GetConfig" => cfgHeap'[callerCfg'] = refConfig'
       /\ op' = "SetConfigNil" => GetConfigValue' = GetConfigValue]_vars

\* GetConfig has just returned a configured record, which is a record of
\* its own
LastSetConfigWinsWitness ==
    /\ op = "GetConfig"
    /\ callerCfg # globalConfig
    /\ cfgHeap[callerCfg] =
           [EnableStackTrace |-> FALSE, MaxStackDepth |-> 5, ProductionMode |-> TRUE]
    /\ refConfig = cfgHeap[callerCfg]

----------------------------------------------------------------------------
(* ShortError, called by one goroutine.  A formatted string is the         *)
(* sequence of the pieces fmt.Sprintf puts one after another.              *)

\* a short form that also lists the metadata keys, as DetailedError does
ShortErrorTextWithMetadata ==
    <<e.Category, " (", e.Code, "): ", e.Message>>
        \o SelectSeq(AllKeys, LAMBDA k : k \in DOMAIN StoreValue)

\* fmt.Sprintf("[%s] %s (%s): %s", ...) or fmt.Sprintf("%s (%s): %s", ...)
ShortErrorText ==
    IF e.RequestID # ""
    THEN <<"[", e.RequestID, "] ", e.Category, " (", e.Code, "): ", e.Message>>
    ELSE <<e.Category, " (", e.Code, "): ", e.Message>>

\* e.ShortError()
ShortError ==
    /\ ret' = [NoRet EXCEPT !.message = ShortErrorText]
    /\ op' = "ShortError"
    /\ UNCHANGED <<e, metaVars, cfgVars, stackVars, chainVars, concVars>>

NextShort ==
    \/ \E category \in {ErrorCategoryValidation, "teapot"}, code \in {"TEST", ""},
          message \in {"m1", ""} :
           NewCustomErrorWithCategory(category, code, message, InitStack, 1)
    \/ \E key \in Keys, value \in Vals : WithMetadata(key, value)
    \/ \E requestID \in {"", "r1"} : WithRequestID(requestID)
    \/ ShortError

SpecShort == Init /\ [][NextShort]_vars

\* C21: ShortError returns "[requestID] category (code): message" when a
\* request id is set and "category (code): message" otherwise, and no
\* WithMetadata call changes what it returns
ShortErrorFormat ==
    [][/\ op' = "ShortError" =>
              ret'.message =
                  (IF e'.RequestID = "" THEN <<>> ELSE <<"[", e'.RequestID, "] ">>)
                      \o <<e'.Category, " (", e'.Code, "): ", e'.Message>>
       /\ op' = "WithMetadata" => ShortErrorText' = ShortErrorText]_vars

\* ShortError has returned the long form for an error that carries metadata
ShortErrorFormatWitness ==
    /\ op = "ShortError"
    /\ DOMAIN StoreValue = Keys
    /\ ret.message = <<"[", "r1", "] ", ErrorCategoryValidation, " (", "TEST", "): ", "m1">>

----------------------------------------------------------------------------
(* Slices of frames a caller shares with the error.  A slice is a view of  *)
(* a backing array: the caller's slice is on an array of its own ("own")   *)
(* or on the array e.stackTrace is on ("stackTrace"), and then its         *)
(* elements are those of e.stackTrace.                                     *)

\* the frame the tests write into a slice: trace[0].Function = "modified"
ModifiedFrame == [Function |-> <<"modified">>, File |-> "f.go", Line |-> 9]

\* a slice on the given array; origin tells where the caller's slice was
\* last made, passed or returned
SliceOn(array, elems, origin) ==
    [array |-> array, elems |-> IF array = "stackTrace" THEN <<>> ELSE elems,
     origin |-> origin]

CallerElems ==
    IF callerSlice.array = "stackTrace" THEN e.stackTrace ELSE callerSlice.elems

\* the slice header is copied and the backing array shared
CopiedArrayShared == "stackTrace"

\* make([]StackFrame, len(src)) and copy(dst, src): an array of its own
CopiedArray == "own"

\* frames := []StackFrame{...}
MakeFrames(frames) ==
    /\ callerSlice' = SliceOn("own", frames, "literal")
    /\ ret' = NoRet
    /\ op' = "MakeFrames"
    /\ UNCHANGED <<e, metaVars, cfgVars, callStack, retStack, filterArgs, chainVars, concVars>>

\* e.WithStackTrace(frames) with the slice the caller holds
WithStackTraceSlice ==
    /\ callerSlice.array # "none"
    /\ e' = [e EXCEPT !.stackTrace = [i \in 1..Len(CallerElems) |-> CallerElems[i]],
                      !.stackTraceCleared = FALSE]
    /\ callerSlice' = SliceOn(IF CopiedArray = "own" THEN callerSlice.array ELSE "stackTrace",
                              CallerElems, "WithStackTrace")
    /\ ret' = NoRet
    /\ op' = "WithStackTrace"
    /\ UNCHANGED <<metaVars, cfgVars, callStack, retStack, filterArgs, chainVars, concVars>>

\* trace := e.GetStackTrace()
GetStackTraceSlice ==
    /\ retStack' = GetStackTraceOf
    /\ callerSlice' = SliceOn(CopiedArray, GetStackTraceOf, "GetStackTrace")
    /\ ret' = NoRet
    /\ op' = "GetStackTrace"
    /\ UNCHANGED <<e, metaVars, cfgVars, callStack, filterArgs, chainVars, concVars>>

\* frames[i] = frame, on the slice the caller holds
CallerSetFrame(i, frame) ==
    /\ callerSlice.array # "none"
    /\ i \in 1..Len(CallerElems)
    /\ IF callerSlice.array = "stackTrace"
       THEN e' = [e EXCEPT !.stackTrace[i] = frame] /\ UNCHANGED callerSlice
       ELSE callerSlice' = [callerSlice EXCEPT !.elems[i] = frame] /\ UNCHANGED e
    /\ retStack' = <<>>
    /\ ret' = NoRet
    /\ op' = "CallerSetFrame"
    /\ UNCHANGED <<metaVars, cfgVars, callStack, filterArgs, chainVars, concVars>>

NextSlices ==
    \/ \E frames \in FrameInputs : MakeFrames(frames)
    \/ WithStackTraceSlice
    \/ GetStackTraceSlice
    \/ \E i \in 1..2 : CallerSetFrame(i, ModifiedFrame)
    \/ ClearStackTrace

SpecSlices == Init /\ [][NextSlices]_vars

\* C22: an assignment to an element of a slice the caller passed to
\* WithStackTrace or got from GetStackTrace never changes what GetStackTrace
\* returns
DefensiveCopies ==
    [][op' = "CallerSetFrame" => GetStackTraceOf' = GetStackTraceOf]_vars

\* the caller has overwritten the first frame of the slice it had passed to
\* WithStackTrace, and the error still has the frame that was passed
DefensiveCopiesWitness ==
    /\ op = "CallerSetFrame"
    /\ callerSlice.origin = "WithStackTrace"
    /\ CallerElems[1] = ModifiedFrame
    /\ GetStackTraceOf = CallerFrames

----------------------------------------------------------------------------
(* FilterStackTrace on stack traces of every order of three frames *)

FilterFrames ==
    {[Function |-> <<"svc", ".", "Handle">>, File |-> "f.go", Line |-> 7],
     [Function |-> <<"repo", ".", "Query">>, File |-> "f.go", Line |-> 8],
     [Function |-> <<"testing", ".", "tRunner">>, File |-> "f.go", Line |-> 9]}

FilterFrameInputs == UNION {[1..n -> FilterFrames] : n \in 0..2}

NextFilter ==
    \/ NewCustomErrorWithCategory(ErrorCategoryInternal, "TEST", "m1", InitStack, 1)
    \/ \E frames \in FilterFrameInputs : WithStackTrace(frames)
    \/ \E patterns \in PatternInputs : FilterStackTrace(patterns)
    \/ ClearStackTrace

SpecFilter == Init /\ [][NextFilter]_vars

\* no pattern of the list occurs in the frame's function name
MatchesNone(frame, patterns) ==
    \A i \in 1..Len(patterns) : ~Contains(frame.Function, patterns[i])

\* C23: FilterStackTrace leaves exactly the frames whose function name
\* contains none of the patterns, in their order; with no patterns or an
\* empty stack trace nothing changes; the same filter applied again changes
\* nothing
FilterExact ==
    [][op' = "FilterStackTrace" =>
           /\ e'.stackTrace =
                  SelectSeq(e.stackTrace, LAMBDA frame : MatchesNone(frame, filterArgs'))
           /\ filterArgs' = <<>> \/ e.stackTrace = <<>> => e'.stackTrace = e.stackTrace
           /\ op = "FilterStackTrace" /\ filterArgs' = filterArgs =>
                  e'.stackTrace = e.stackTrace]_vars

\* the testing frame has been filtered out of the captured stack trace and
\* the two frames inside it are left in their order
FilterExactWitness ==
    /\ op = "FilterStackTrace"
    /\ filterArgs = << <<"testing", ".">> >>
    /\ Len(e.stackTrace) = 2
    /\ e.stackTrace[1] = [Function |-> <<"svc", ".", "Handle">>, File |-> "f.go", Line |-> 1]
    /\ e.stackTrace[2] = [Function |-> <<"repo", ".", "Query">>, File |-> "f.go", Line |-> 2]

----------------------------------------------------------------------------
(* The cleared flag: one error, every method that can follow               *)
(* ClearStackTrace, and SetConfig                                          *)

\* fmt.Sprintf(LOG_TEMPLATE_STACK_FRAME, ...) followed by "\n", for one frame
FrameText(frame) == <<"  ", frame.Function, "\n    ", frame.File, ":", frame.Line, "\n">>

RECURSIVE FramesText(_)
FramesText(frames) ==
    IF frames = <<>> THEN <<>> ELSE FrameText(Head(frames)) \o FramesText(Tail(frames))

\* what GetStackTraceString returns in the current state: the empty string
\* for an empty copy, otherwise one entry per frame
GetStackTraceStringOf ==
    IF Len(GetStackTraceOf) = 0 THEN <<>> ELSE FramesText(GetStackTraceOf)

\* e.GetStackTraceString()
GetStackTraceString ==
    /\ ret' = [NoRet EXCEPT !.message = GetStackTraceStringOf]
    /\ op' = "GetStackTraceString"
    /\ UNCHANGED <<e, metaVars, cfgVars, stackVars, chainVars, concVars>>

NextCleared ==
    \/ \E key \in Keys : WithMetadata(key, "v1")
    \/ WithRequestID("r1")
    \/ \E frames \in FrameInputs : WithStackTrace(frames)
    \/ \E patterns \in PatternInputs : FilterStackTrace(patterns)
    \/ ClearStackTrace
    \/ GetStackTrace
    \/ GetStackTraceString
    \/ ToJSON
    \/ ClientSafeMessage
    \/ ToClientJSON
    \/ \E c \in {c \in ConfigInputs : c.MaxStackDepth = 2 /\ c.EnableStackTrace} : SetConfig(c)

SpecCleared == Init /\ [][NextCleared]_vars

\* C24: while the cleared flag is set GetStackTrace returns no frame and
\* GetStackTraceString the empty string; only WithStackTrace puts frames
\* back, and it resets the flag; ClearStackTrace sets the flag and leaves the
\* metadata as it is
ClearedStaysEmpty ==
    [][/\ e'.stackTraceCleared => GetStackTraceOf' = <<>> /\ GetStackTraceStringOf' = <<>>
       /\ op' = "GetStackTrace" /\ e'.stackTraceCleared => retStack' = <<>>
       /\ op' = "GetStackTraceString" /\ e'.stackTraceCleared => ret'.message = <<>>
       /\ op' # "WithStackTrace" /\ e.stackTraceCleared =>
              e'.stackTraceCleared /\ e'.stackTrace = <<>>
       /\ op' = "WithStackTrace" => ~e'.stackTraceCleared
       /\ op' = "ClearStackTrace" =>
              e'.stackTraceCleared /\ StoreValue' = StoreValue /\ e'.metadata = e.metadata]_vars

\* GetStackTraceString has returned the empty string for a cleared error
\* that carries metadata, under a configuration set after the clearing
ClearedStaysEmptyWitness ==
    /\ op = "GetStackTraceString"
    /\ e.stackTraceCleared
    /\ ret.message = <<>>
    /\ DOMAIN StoreValue = Keys
    /\ ProductionMode

----------------------------------------------------------------------------
(* Renders of errors constructed while production mode is off, with        *)
(* SetConfig turning production mode on and off between the calls          *)

NextRenderTime ==
    \/ /\ ~ProductionMode
       /\ \E category \in {ErrorCategoryInternal, ErrorCategoryExternal, ErrorCategoryValidation} :
              NewCustomErrorWithCategory(category, "TEST", "m1", InitStack, 1)
    \/ \E key \in Keys : WithMetadata(key, "v1")
    \/ \E c \in {c \in ConfigInputs :
                    c.EnableStackTrace /\ c.MaxStackDepth = DEFAULT_STACK_DEPTH} : SetConfig(c)
    \/ ClientSafeMessage
    \/ ToClientJSON

SpecRenderTime == Init /\ [][NextRenderTime]_vars

\* the message a client gets when details are filtered
FilteredMessage ==
    IF e.Category = ErrorCategoryInternal THEN "An internal error occurred"
    ELSE IF e.Category = ErrorCategoryExternal THEN "A service is temporarily unavailable"
    ELSE e.Message

\* C25: every ClientSafeMessage and ToClientJSON call filters according to
\* the production mode in effect when it is called, whatever the mode was
\* when the error was constructed
RenderAtCallTime ==
    [][op' \in {"ClientSafeMessage", "ToClientJSON"} =>
           LET production == cfgHeap[globalConfig].ProductionMode
           IN  /\ ret'.message = IF production THEN FilteredMessage ELSE e.Message
               /\ op' = "ToClientJSON" =>
                      PayloadMetadata' =
                          IF production
                          THEN [k \in DOMAIN StoreValue \cap AllowList |-> StoreValue[k]]
                          ELSE StoreValue]_vars

\* an internal error, constructed while production mode was off, has been
\* rendered after production mode was turned on
RenderAtCallTimeWitness ==
    /\ op = "ToClientJSON"
    /\ ProductionMode
    /\ e.Category = ErrorCategoryInternal
    /\ ret.message = "An internal error occurred"
    /\ DOMAIN StoreValue = Keys
    /\ DOMAIN PayloadMetadata = {"user_id"}

----------------------------------------------------------------------------
(* Shape of a captured stack trace (SpecStack) *)

\* a frame the walk stops after
StopFrame(frame) ==
    \/ Contains(frame.Function, MAIN_FUNCTION_NAME)
    \/ Contains(frame.Function, TESTING_FUNCTION_NAME)

\* runtime.Caller(i) or runtime.FuncForPC fails for frame i of the call stack
Unresolvable(i) == i >= StackLen(callStack) \/ ~FrameAt(callStack, i).hasFunc

\* C26: the captured frames are the frames 2, 3, ... of the call stack in
\* that order, none missing; no frame but the last is a main.main or testing
\* frame; and the walk ends at the depth bound, after the first such frame,
\* or before the first unresolvable frame, whichever comes first
ContiguousCapture ==
    op \in Constructors /\ GetConfigValue.EnableStackTrace =>
        LET n == Len(e.stackTrace)
            m == IF GetConfigValue.MaxStackDepth <= 0 THEN DEFAULT_STACK_DEPTH
                 ELSE GetConfigValue.MaxStackDepth
        IN  /\ \A k \in 1..n :
                  /\ ~Unresolvable(k + 1)
                  /\ e.stackTrace[k] = StackFrame(FrameAt(callStack, k + 1))
            /\ \A k \in 1..(n - 1) : ~StopFrame(e.stackTrace[k])
            /\ \/ n = m
               \/ n < m /\ n >= 1 /\ StopFrame(e.stackTrace[n])
               \/ n < m /\ Unresolvable(n + 2)

\* the walk ended at a testing frame three frames above the constructor,
\* within the depth bound and with more frames outside it
ContiguousCaptureWitness ==
    /\ op \in Constructors
    /\ GetConfigValue.EnableStackTrace
    /\ GetConfigValue.MaxStackDepth = DEFAULT_STACK_DEPTH
    /\ callStack.kind = "testing"
    /\ callStack.sp = 3
    /\ StackLen(callStack) > 3 + STACK_SKIP_FRAMES
    /\ Len(e.stackTrace) = 3
    /\ e.stackTrace[1].Function = <<"svc", ".", "Handle">>
    /\ e.stackTrace[3].Function = <<"testing", ".", "tRunner">>

----------------------------------------------------------------------------
(* A constructor that runs while other goroutines call SetConfig.  The     *)
(* copy GetConfig makes and the store SetConfig makes are each one step:   *)
(* both are made with globalConfigMu held.  hist[g] collects every         *)
(* configuration in effect since g's constructor call began.               *)

\* the call stack the constructors run on: deeper than every depth bound
ConstructStack == MkStack(MaxCallDepth, 0, "main")

ConstructConfigInputs ==
    [EnableStackTrace : BOOLEAN, MaxStackDepth : {0, 2, 3}, ProductionMode : {FALSE}]

constructFrame ==
    <<maps, held, refMap, retVal, retFound, callerCfg, refConfig, stackVars, chainVars,
      written, renderVars, mu, globalConfigMu, ec>>

\* a goroutine calls NewCustomErrorWithCategory(category, code, message)
NCCall(g) ==
    /\ pc[g] = "idle"
    /\ pc' = [pc EXCEPT ![g] = "nc_getconfig"]
    /\ loc' = [loc EXCEPT ![g] = NoLocals]
    /\ hist' = [hist EXCEPT ![g] = {GetConfigValue}]
    /\ op' = "call"
    /\ UNCHANGED <<e, cfgHeap, globalConfig, constructFrame>>

\* config := GetConfig()
NCGetConfig(g) ==
    /\ pc[g] = "nc_getconfig"
    /\ loc' = [loc EXCEPT ![g].config = GetConfigValue]
    /\ pc' = [pc EXCEPT ![g] = "nc_capture"]
    /\ op' = "step"
    /\ UNCHANGED <<e, cfgHeap, globalConfig, hist, constructFrame>>

\* if config.EnableStackTrace { err.stackTrace = captureStackTrace(STACK_SKIP_FRAMES) }:
\* captureStackTrace calls GetConfig again and walks the stack
NCCapture(g) ==
    /\ pc[g] = "nc_capture"
    /\ loc' = [loc EXCEPT ![g].frames =
                  IF loc[g].config.EnableStackTrace
                  THEN captureStackTrace(ConstructStack, STACK_SKIP_FRAMES)
                  ELSE <<>>]
    /\ pc' = [pc EXCEPT ![g] = "nc_return"]
    /\ op' = "step"
    /\ UNCHANGED <<e, cfgHeap, globalConfig, hist, constructFrame>>

\* return err
NCReturn(g) ==
    /\ pc[g] = "nc_return"
    /\ e' = [Category |-> ErrorCategoryTimeout, Code |-> "CUSTOM", Message |-> "m1",
             metadata |-> Nil, RequestID |-> "",
             stackTrace |-> loc[g].frames,
             Wrapped |-> Nil, Sentinel |-> Nil, Timestamp |-> 1,
             stackTraceCleared |-> FALSE]
    /\ pc' = [pc EXCEPT ![g] = "idle"]
    /\ loc' = [loc EXCEPT ![g] = NoLocals]
    /\ hist' = [hist EXCEPT ![g] = {}]
    /\ op' = "NewCustomErrorWithCategory"
    /\ UNCHANGED <<cfgHeap, globalConfig, constructFrame>>

\* some goroutine's SetConfig(&Config{...}) stores its record
SetConfigStore(c) ==
    LET ref == NewCfgId({})
    IN  /\ cfgHeap' = CollectCfg([cfgHeap EXCEPT ![ref] = c], {ref})
        /\ globalConfig' = ref
        /\ hist' = [g \in Goroutines |-> IF pc[g] = "idle" THEN hist[g] ELSE hist[g] \cup {c}]
        /\ op' = "SetConfig"
        /\ UNCHANGED <<e, pc, loc, constructFrame>>

\* one goroutine constructs errors, the others call SetConfig
Constructing == {1}

NextConstruct ==
    \/ \E g \in Constructing :
           \/ NCCall(g)
           \/ NCGetConfig(g)
           \/ NCCapture(g)
           \/ NCReturn(g)
    \/ \E c \in ConstructConfigInputs : SetConfigStore(c)

SpecConstruct == Init /\ [][NextConstruct]_vars

\* the stack trace a constructor makes on ConstructStack when c is the
\* configuration throughout
CaptureUnder(c) ==
    IF ~c.EnableStackTrace THEN <<>>
    ELSE LET m == IF c.MaxStackDepth <= 0 THEN DEFAULT_STACK_DEPTH ELSE c.MaxStackDepth
         IN  [k \in 1..m |-> StackFrame(FrameAt(ConstructStack, k + 1))]

\* C27: the stack trace a constructor returns is the one it would make under
\* one of the configurations in effect between its call and its return
SingleConfigSnapshot ==
    \A g \in Constructing :
        pc[g] = "nc_return" => \E c \in hist[g] : loc[g].frames = CaptureUnder(c)

\* a constructor that found capture enabled with depth 3 is about to return
\* the two frames of the configuration set while it ran
SingleConfigSnapshotWitness ==
    \E g \in Constructing :
        /\ pc[g] = "nc_return"
        /\ loc[g].config = [EnableStackTrace |-> TRUE, MaxStackDepth |-> 3, ProductionMode |-> FALSE]
        /\ GetConfigValue.MaxStackDepth = 2
        /\ Len(loc[g].frames) = 2

----------------------------------------------------------------------------
(* ToClientJSON step by step, while other goroutines call SetConfig.  The  *)
(* two reads of globalConfig.ProductionMode are separate steps: line 123   *)
(* in ToClientJSON itself and line 104 in the ClientSafeMessage it calls.  *)

\* one goroutine renders, the others call SetConfig
Rendering == {1}

\* a goroutine calls e.ToClientJSON()
TJCall(g) ==
    /\ pc[g] = "idle"
    /\ pc' = [pc EXCEPT ![g] = "tj_metadata"]
    /\ loc' = [loc EXCEPT ![g] = NoLocals]
    /\ hist' = [hist EXCEPT ![g] = {GetConfigValue}]
    /\ op' = "call"
    /\ UNCHANGED <<e, cfgHeap, globalConfig, constructFrame>>

\* metadata := e.GetAllMetadata()
TJMetadata(g) ==
    /\ pc[g] = "tj_metadata"
    /\ loc' = [loc EXCEPT ![g].copy = StoreValue]
    /\ pc' = [pc EXCEPT ![g] = "tj_filter"]
    /\ op' = "step"
    /\ UNCHANGED <<e, cfgHeap, globalConfig, hist, constructFrame>>

\* if globalConfig.ProductionMode { ... metadata = filteredMetadata }
TJFilter(g) ==
    /\ pc[g] = "tj_filter"
    /\ loc' = [loc EXCEPT ![g].copy = IF ProductionMode THEN FilterMetadata(@) ELSE @]
    /\ pc' = [pc EXCEPT ![g] = "tj_message"]
    /\ op' = "step"
    /\ UNCHANGED <<e, cfgHeap, globalConfig, hist, constructFrame>>

\* JSON_FIELD_MESSAGE: e.ClientSafeMessage()
TJMessage(g) ==
    /\ pc[g] = "tj_message"
    /\ loc' = [loc EXCEPT ![g].str = ClientSafeMessageOf(ProductionMode)]
    /\ pc' = [pc EXCEPT ![g] = "tj_return"]
    /\ op' = "step"
    /\ UNCHANGED <<e, cfgHeap, globalConfig, hist, constructFrame>>

\* return map[string]interface{}{JSON_FIELD_ERROR: errorData}
TJReturn(g) ==
    /\ pc[g] = "tj_return"
    /\ ret' = ErrorData(loc[g].str, loc[g].copy)
    /\ pc' = [pc EXCEPT ![g] = "idle"]
    /\ loc' = [loc EXCEPT ![g] = NoLocals]
    /\ hist' = [hist EXCEPT ![g] = {}]
    /\ op' = "ToClientJSON"
    /\ UNCHANGED <<e, maps, held, refMap, retVal, retFound, cfgVars, stackVars, chainVars,
                   written, mu, globalConfigMu, ec>>

NextClientJSON ==
    \/ \E g \in Rendering :
           \/ TJCall(g)
           \/ TJMetadata(g)
           \/ TJFilter(g)
           \/ TJMessage(g)
           \/ TJReturn(g)
    \/ \E c \in ConcConfigInputs : SetConfigStore(c)
    \/ /\ \A g \in Rendering : pc[g] = "idle"
       /\ \E key \in Keys : WithMetadata(key, "v1")

SpecClientJSON == Init /\ [][NextClientJSON]_vars

\* C28: the payload of one ToClientJSON call on an internal or external
\* error has either the substituted message and the allow-listed metadata,
\* or the error's message and its full metadata
OneFilteringDecision ==
    op = "ToClientJSON" /\ e.Category \in {ErrorCategoryInternal, ErrorCategoryExternal} =>
        \/ /\ ret.message = FilteredMessage
           /\ PayloadMetadata = [k \in DOMAIN StoreValue \cap AllowList |-> StoreValue[k]]
        \/ /\ ret.message = e.Message
           /\ PayloadMetadata = StoreValue

----------------------------------------------------------------------------
(* ErrorCollection: the lock calls of its methods, in the order the code   *)
(* makes them.  A deferred RUnlock or Unlock is the instruction before the *)
(* return.  A method called by another method is inlined at the call.      *)

\* how many errors, and how many validation errors, a collection is given
MaxErrors == 1

\* go on n instructions further when the test holds
Skip(test, n) == [do |-> test, mutex |-> "", skip |-> n]

\* Count(): RLock, len(ec.Errors) + len(ec.ValidationErrors), deferred RUnlock
CountCall ==
    <<I("RLock", "ec"), I("RLockWait", "ec"), I("count", "ec"), I("RUnlock", "ec")>>

\* GetFields(): RLock, the fields of ec.ValidationErrors, deferred RUnlock
GetFieldsCall ==
    <<I("RLock", "ec"), I("RLockWait", "ec"), I("fields", "ec"), I("RUnlock", "ec")>>

\* Error(): if ec.IsEmpty() return; RLock; ec.Count() in either Sprintf;
\* deferred RUnlock
ErrorCall ==
    CountCall \o <<Skip("ifEmpty", 7), I("RLock", "ec"), I("RLockWait", "ec")>>
        \o CountCall \o <<I("RUnlock", "ec")>>

\* ToJSON(): RLock; ec.Error(); ec.Count(); deferred RUnlock
ToJSONProgram ==
    <<I("RLock", "ec"), I("RLockWait", "ec")>> \o ErrorCall \o CountCall
        \o <<I("RUnlock", "ec"), I("return", "")>>

\* ToLogFields(): RLock; ec.Error(); ec.Count(); ec.GetFields() if there are
\* validation errors; deferred RUnlock
ToLogFieldsProgram ==
    <<I("RLock", "ec"), I("RLockWait", "ec")>> \o ErrorCall \o CountCall
        \o <<Skip("ifNoValidation", 4)>> \o GetFieldsCall
        \o <<I("RUnlock", "ec"), I("return", "")>>

\* ToCustomError(): if ec.IsEmpty() return nil; RLock; ec.Count() if the
\* summary is empty; ec.Count() for total_error_count; ec.GetFields() if
\* there are validation errors; deferred RUnlock
ToCustomErrorLocked ==
    <<I("RLock", "ec"), I("RLockWait", "ec"), Skip("ifSummary", 4)>> \o CountCall \o CountCall
        \o <<Skip("ifNoValidation", 4)>> \o GetFieldsCall \o <<I("RUnlock", "ec")>>

ToCustomErrorProgram ==
    CountCall \o <<Skip("ifEmpty", Len(ToCustomErrorLocked))>> \o ToCustomErrorLocked
        \o <<I("return", "")>>

CollectionReads ==
    {"ErrorCollection.Error", "ErrorCollection.ToJSON", "ErrorCollection.ToLogFields",
     "ErrorCollection.ToCustomError"}

CollectionWrites ==
    {"ErrorCollection.Add", "ErrorCollection.AddValidation",
     "ErrorCollection.AddValidationWithCode", "ErrorCollection.WithContext"}

\* Add, AddValidation (which calls AddValidationWithCode), AddValidationWithCode
\* and WithContext: Lock, the append or the store, deferred Unlock
CollectionProgram(method) ==
    CASE method = "ErrorCollection.Error"         -> ErrorCall \o <<I("return", "")>>
      [] method = "ErrorCollection.ToJSON"        -> ToJSONProgram
      [] method = "ErrorCollection.ToLogFields"   -> ToLogFieldsProgram
      [] method = "ErrorCollection.ToCustomError" -> ToCustomErrorProgram
      [] method \in CollectionWrites              ->
             <<I("Lock", "ec"), I("LockWait", "ec"), I("write", "ec"), I("Unlock", "ec"),
               I("return", "")>>

InCollection(g) == pc[g] \in CollectionReads \cup CollectionWrites
ECInstr(g)      == CollectionProgram(pc[g])[loc[g].ip]

collectionFrame ==
    <<e, metaVars, cfgVars, stackVars, chainVars, mu, globalConfigMu, hist, written, renderVars>>

\* goroutine g calls a method of the collection; Add is given a non-nil
\* error and the slices are kept within MaxErrors
ECCall(g, method) ==
    /\ pc[g] = "idle"
    /\ method = "ErrorCollection.Add" => Len(ec.Errors) < MaxErrors
    /\ method \in {"ErrorCollection.AddValidation", "ErrorCollection.AddValidationWithCode"}
           => Len(ec.ValidationErrors) < MaxErrors
    /\ pc' = [pc EXCEPT ![g] = method]
    /\ loc' = [loc EXCEPT ![g] = [NoLocals EXCEPT !.ip = 1]]
    /\ op' = "call"
    /\ UNCHANGED <<ec, collectionFrame>>

\* ec.mu.Lock(): take the inner mutex
ECLock(g) ==
    /\ InCollection(g) /\ ECInstr(g).do = "Lock"
    /\ LockCanAnnounce(ec.mu)
    /\ ec' = [ec EXCEPT !.mu = LockAnnounce(@, g)]
    /\ Advance(g)
    /\ op' = "step"
    /\ UNCHANGED <<pc, collectionFrame>>

\* ec.mu.Lock(): the readers have left
ECLockWait(g) ==
    /\ InCollection(g) /\ ECInstr(g).do = "LockWait"
    /\ LockCanReturn(ec.mu, g)
    /\ ec' = [ec EXCEPT !.mu = LockReturn(@, g)]
    /\ Advance(g)
    /\ op' = "step"
    /\ UNCHANGED <<pc, collectionFrame>>

\* the append to ec.Errors or ec.ValidationErrors, or ec.Context[key] = value
ECWrite(g) ==
    /\ InCollection(g) /\ ECInstr(g).do = "write"
    /\ ec' = CASE pc[g] = "ErrorCollection.Add" ->
                      [ec EXCEPT !.Errors = Append(@, ErrNotFound)]
               [] pc[g] = "ErrorCollection.WithContext" ->
                      [ec EXCEPT !.Context = MapStore(@, "user_id", "v1")]
               [] OTHER ->
                      [ec EXCEPT !.ValidationErrors = Append(@, "field")]
    /\ Advance(g)
    /\ op' = "step"
    /\ UNCHANGED <<pc, collectionFrame>>

\* deferred ec.mu.Unlock()
ECUnlock(g) ==
    /\ InCollection(g) /\ ECInstr(g).do = "Unlock"
    /\ ec' = [ec EXCEPT !.mu = Unlock(@, g)]
    /\ Advance(g)
    /\ op' = "step"
    /\ UNCHANGED <<pc, collectionFrame>>

\* ec.mu.RLock(): enter or block
ECRLock(g) ==
    /\ InCollection(g) /\ ECInstr(g).do = "RLock"
    /\ ec' = [ec EXCEPT !.mu = RLock(@, g)]
    /\ Advance(g)
    /\ op' = "step"
    /\ UNCHANGED <<pc, collectionFrame>>

\* ec.mu.RLock() returns
ECRLockWait(g) ==
    /\ InCollection(g) /\ ECInstr(g).do = "RLockWait"
    /\ RLockReturned(ec.mu, g)
    /\ Advance(g)
    /\ op' = "step"
    /\ UNCHANGED <<ec, pc, collectionFrame>>

\* return len(ec.Errors) + len(ec.ValidationErrors), or the fields
ECRead(g) ==
    /\ InCollection(g) /\ ECInstr(g).do \in {"count", "fields"}
    /\ loc' = [loc EXCEPT ![g] = [@ EXCEPT
                  !.ip = @ + 1,
                  !.count = IF ECInstr(g).do = "count"
                            THEN Len(ec.Errors) + Len(ec.ValidationErrors) ELSE @]]
    /\ op' = "step"
    /\ UNCHANGED <<ec, pc, collectionFrame>>

\* deferred ec.mu.RUnlock()
ECRUnlock(g) ==
    /\ InCollection(g) /\ ECInstr(g).do = "RUnlock"
    /\ ec' = [ec EXCEPT !.mu = RUnlock(@, g)]
    /\ Advance(g)
    /\ op' = "step"
    /\ UNCHANGED <<pc, collectionFrame>>

\* if ec.IsEmpty(), if message == "", if len(ec.ValidationErrors) > 0
ECTest(g) ==
    /\ InCollection(g) /\ ECInstr(g).do \in {"ifEmpty", "ifSummary", "ifNoValidation"}
    /\ LET holds == CASE ECInstr(g).do = "ifEmpty"   -> loc[g].count = 0
                      [] ECInstr(g).do = "ifSummary" -> ec.Summary # ""
                      [] OTHER                       -> Len(ec.ValidationErrors) = 0
       IN  loc' = [loc EXCEPT ![g].ip = IF holds THEN @ + 1 + ECInstr(g).skip ELSE @ + 1]
    /\ op' = "step"
    /\ UNCHANGED <<ec, pc, collectionFrame>>

\* the call returns
ECReturn(g) ==
    /\ InCollection(g) /\ ECInstr(g).do = "return"
    /\ pc' = [pc EXCEPT ![g] = "idle"]
    /\ loc' = [loc EXCEPT ![g] = NoLocals]
    /\ op' = pc[g]
    /\ UNCHANGED <<ec, collectionFrame>>

\* a step of a call goroutine g has made
ECStep(g) ==
    \/ ECLock(g)
    \/ ECLockWait(g)
    \/ ECWrite(g)
    \/ ECUnlock(g)
    \/ ECRLock(g)
    \/ ECRLockWait(g)
    \/ ECRead(g)
    \/ ECRUnlock(g)
    \/ ECTest(g)
    \/ ECReturn(g)

NextCollection ==
    \E g \in Callers :
        \/ \E method \in CollectionReads \cup CollectionWrites : ECCall(g, method)
        \/ ECStep(g)

\* a goroutine inside a call keeps running, and a goroutine waiting for the
\* inner mutex of Lock gets it if it is free again and again
SpecCollection ==
    /\ Init
    /\ [][NextCollection]_vars
    /\ \A g \in Callers : WF_vars(ECStep(g)) /\ SF_vars(ECLock(g))

\* C29: every read call on the collection that runs together with
\* writers on the same collection returns
CollectionReadsReturn ==
    \A g \in Callers : (pc[g] \in CollectionReads) ~> (pc[g] = "idle")

----------------------------------------------------------------------------
(* c := &Config{...}; SetConfig(c), with the caller keeping c, followed by *)
(* assignments to the fields of c, GetConfig calls, constructors and       *)
(* renders                                                                 *)

\* c := &Config{...}; SetConfig(c): globalConfig = config, the pointer the
\* caller keeps
SetConfigKept(c) ==
    LET ref == NewCfgId({})
    IN  /\ cfgHeap' = CollectCfg([cfgHeap EXCEPT ![ref] = c], {ref})
        /\ globalConfig' = ref
        /\ callerCfg' = ref
        /\ refConfig' = c
        /\ op' = "SetConfig"
        /\ ret' = NoRet
        /\ UNCHANGED <<e, metaVars, stackVars, chainVars, concVars>>

NextIsolation ==
    \/ \E c \in ConfigCallInputs : SetConfigKept(c)
    \/ \E field \in ConfigFields : \E value \in FieldValues(field) : CallerSetField(field, value)
    \/ GetConfig
    \/ \E sentinel \in {ErrInternal, ErrNotFound} :
           NewCustomError(sentinel, Nil, "m1", InitStack, 1)
    \/ ToClientJSON

SpecIsolation == Init /\ [][NextIsolation]_vars

\* C30: the configuration in force has the field values the argument of
\* the last SetConfig call had when that call returned, whatever the
\* caller has assigned to the record since: GetConfig returns them, a
\* constructor captures a stack exactly when they enable it, and
\* ToClientJSON substitutes the message exactly when they say production
InstalledConfigIsolated ==
    /\ GetConfigValue = refConfig
    /\ op = "NewCustomError" => ((e.stackTrace # <<>>) <=> refConfig.EnableStackTrace)
    /\ op = "ToClientJSON" => ret.message = ClientSafeMessageOf(refConfig.ProductionMode)

\* the same calls with no assignment by the caller
NextIsolationCalls ==
    \/ \E c \in ConfigCallInputs : SetConfigKept(c)
    \/ GetConfig
    \/ \E sentinel \in {ErrInternal, ErrNotFound} :
           NewCustomError(sentinel, Nil, "m1", InitStack, 1)
    \/ ToClientJSON

SpecIsolationCalls == Init /\ [][NextIsolationCalls]_vars

====
